---- MODULE Spec2Model ----
(***************************************************************************)
(* Accounts CSV import/export hook (useAccountsImportExport) and the       *)
(* dashboard customize modal (DashboardCustomizeModal).                    *)
(*                                                                         *)
(* Spec: one hook, imports and exports one after the other.  SpecFair:     *)
(* Spec with every awaited promise settling.  SpecTwo: two invocations of  *)
(* handleImport that overlap.  SpecPure: the pure functions applied to     *)
(* all short texts.  SpecModal: the widget list of the modal.              *)
(*                                                                         *)
(* Text is modelled as a sequence of UTF-16 code units, each written as a  *)
(* one-character string ("a", ",", ...); code units outside ASCII are      *)
(* written by their code point ("U+0130").  A JavaScript object is a       *)
(* function from keys (texts) to values.                                   *)
(***************************************************************************)
EXTENDS Integers, Sequences, FiniteSets, TLC

VARIABLES
    pc,            \* position of the running handleImport / "idle"
    isImporting,   \* the hook's busy flag (useState)
    user,          \* result of supabase.auth.getUser()
    file,          \* text of the file handed to handleImport
    fromExport,    \* TRUE iff file is the export of the store as it is at the start
    lines,         \* non-blank lines of the file
    headers,       \* normalized header keys
    records,       \* validated import records
    errors,        \* row-level error messages
    ri,            \* index in records of the record being reconciled
    found,         \* result of the last lookup (a row {id} or null)
    successCount,  \* created tally
    updateCount,   \* updated tally
    store,         \* the accounts table: a sequence of rows
    store0,        \* the accounts table when the running import started
    now,           \* clock used for created_at / updated_at
    calls,         \* persistence requests issued by the running operation, in order
                   \* (a lookup with the number of rows its filter matched)
    toasts,        \* notifications emitted by the running operation, in order
    completions,   \* number of onImportComplete() calls of the running import
    exported,      \* content of the file the last export generated, null if none
    failures,      \* persistence requests that came back with an error so far
    imports,       \* imports started so far
    arg,           \* input of the function under test (pure specifications)
    ret,           \* its result
    peer,          \* the other running invocation of handleImport, if any: the
                   \* hook it belongs to and its locals while it is suspended
    widgets,       \* DashboardCustomizeModal: the widgets state
    lastOp         \* DashboardCustomizeModal: the last handler run, its inputs
                   \* and what it reported

vars == << pc, isImporting, user, file, fromExport, lines, headers, records, errors, ri,
           found, successCount, updateCount, store, store0, now, calls, toasts,
           completions, exported, failures, imports, arg, ret, peer, widgets, lastOp >>

----
\* Characters and absent values

DQ == "\""
NL == "\n"
COMMA == ","
SEMI == ";"

\* JavaScript null / undefined: values that are no text
null == <<"<null>">>
undefined == <<"<undefined>">>

IsNullish(v) == v = null \/ v = undefined

\* truthiness of a text-or-nullish value: '' , null and undefined are falsy
Truthy(v) == ~IsNullish(v) /\ v # <<>>

\* a || b
Or(a, b) == IF Truthy(a) THEN a ELSE b

UpperCase == <<"A","B","C","D","E","F","G","H","I","J","K","L","M",
               "N","O","P","Q","R","S","T","U","V","W","X","Y","Z">>
LowerCase == <<"a","b","c","d","e","f","g","h","i","j","k","l","m",
               "n","o","p","q","r","s","t","u","v","w","x","y","z">>
Digits == <<"0","1","2","3","4","5","6","7","8","9">>

Range(s) == { s[i] : i \in DOMAIN s }

\* the white space String.prototype.trim strips, as far as it occurs here
WhiteSpace == {" ", "\t", NL, "\r"}

\* String.prototype.includes for one code unit
Includes(s, c) == \E i \in DOMAIN s : s[i] = c

\* Array.prototype.includes
ArrayIncludes(a, x) == \E i \in DOMAIN a : a[i] = x

RECURSIVE TrimStart(_)
TrimStart(s) ==
    IF s # <<>> /\ Head(s) \in WhiteSpace THEN TrimStart(Tail(s)) ELSE s

RECURSIVE TrimEnd(_)
TrimEnd(s) ==
    IF s # <<>> /\ s[Len(s)] \in WhiteSpace THEN TrimEnd(SubSeq(s, 1, Len(s) - 1)) ELSE s

\* String.prototype.trim
Trim(s) == TrimEnd(TrimStart(s))

\* String.prototype.split on a set of one-unit separators (/[,;]/ or '\n'):
\* the pieces so far and the piece being read, after one more code unit
splitStep(st, seps, c) ==
    IF c \in seps THEN [acc |-> Append(st.acc, st.cur), cur |-> << >>]
    ELSE [acc |-> st.acc, cur |-> Append(st.cur, c)]

\* the code units s[lo..hi] taken in order (evaluated by halves to keep the
\* evaluation shallow)
RECURSIVE splitRange(_, _, _, _, _)
splitRange(s, seps, lo, hi, st) ==
    IF lo > hi THEN st
    ELSE IF lo = hi THEN splitStep(st, seps, s[lo])
    ELSE LET mid == (lo + hi) \div 2
             left == splitRange(s, seps, lo, mid, st)
         IN  \* the test makes the first half be evaluated before the second
             IF Len(left.acc) >= 0 THEN splitRange(s, seps, mid + 1, hi, left) ELSE left

Split(s, seps) ==
    LET st == splitRange(s, seps, 1, Len(s), [acc |-> << >>, cur |-> << >>])
    IN  Append(st.acc, st.cur)

\* Array.prototype.join
RECURSIVE Join(_, _)
Join(a, sep) ==
    IF a = <<>> THEN <<>>
    ELSE IF Len(a) = 1 THEN a[1]
    ELSE a[1] \o sep \o Join(Tail(a), sep)

\* Array.prototype.filter / map
Filter(a, Keep(_)) == SelectSeq(a, Keep)

Map(a, F(_)) == [i \in DOMAIN a |-> F(a[i])]

----
\* Object keys and the validation tables

k_id == <<"i", "d">>
k_company_name == <<"c", "o", "m", "p", "a", "n", "y", "_", "n", "a", "m", "e">>
k_name == <<"n", "a", "m", "e">>
k_company == <<"c", "o", "m", "p", "a", "n", "y">>
k_email == <<"e", "m", "a", "i", "l">>
k_company_type == <<"c", "o", "m", "p", "a", "n", "y", "_", "t", "y", "p", "e">>
k_industry == <<"i", "n", "d", "u", "s", "t", "r", "y">>
k_tags == <<"t", "a", "g", "s">>
k_country == <<"c", "o", "u", "n", "t", "r", "y">>
k_status == <<"s", "t", "a", "t", "u", "s">>
k_website == <<"w", "e", "b", "s", "i", "t", "e">>
k_region == <<"r", "e", "g", "i", "o", "n">>
k_notes == <<"n", "o", "t", "e", "s">>
k_phone == <<"p", "h", "o", "n", "e">>
k_account_owner == <<"a", "c", "c", "o", "u", "n", "t", "_", "o", "w", "n", "e", "r">>
k_created_by == <<"c", "r", "e", "a", "t", "e", "d", "_", "b", "y">>
k_modified_by == <<"m", "o", "d", "i", "f", "i", "e", "d", "_", "b", "y">>
k_created_at == <<"c", "r", "e", "a", "t", "e", "d", "_", "a", "t">>
k_updated_at == <<"u", "p", "d", "a", "t", "e", "d", "_", "a", "t">>

validStatuses == <<
    <<"N", "e", "w">>,
    <<"W", "o", "r", "k", "i", "n", "g">>,
    <<"W", "a", "r", "m">>,
    <<"H", "o", "t">>,
    <<"N", "u", "r", "t", "u", "r", "e">>,
    <<"C", "l", "o", "s", "e", "d", "-", "W", "o", "n">>,
    <<"C", "l", "o", "s", "e", "d", "-", "L", "o", "s", "t">> >>

validTags == <<
    <<"A", "U", "T", "O", "S", "A", "R">>,
    <<"A", "d", "a", "p", "t", "i", "v", "e", " ", "A", "U", "T", "O", "S", "A", "R">>,
    <<"E", "m", "b", "e", "d", "d", "e", "d", " ", "S", "y", "s", "t", "e", "m", "s">>,
    <<"B", "S", "W">>,
    <<"E", "C", "U">>,
    <<"Z", "o", "n", "e", " ", "C", "o", "n", "t", "r", "o", "l", "l", "e", "r">>,
    <<"H", "C", "P">>,
    <<"C", "I", "/", "C", "D">>,
    <<"V", "&", "V", " ", "T", "e", "s", "t", "i", "n", "g">>,
    <<"I", "n", "t", "e", "g", "r", "a", "t", "i", "o", "n">>,
    <<"S", "o", "f", "t", "w", "a", "r", "e", " ", "A", "r", "c", "h", "i", "t", "e", "c", "t", "u", "r", "e">>,
    <<"L", "I", "N", "U", "X">>,
    <<"Q", "N", "X">>,
    <<"C", "y", "b", "e", "r", "s", "e", "c", "u", "r", "i", "t", "y">>,
    <<"F", "u", "S", "a">>,
    <<"O", "T", "A">>,
    <<"D", "i", "a", "g", "n", "o", "s", "t", "i", "c", "s">>,
    <<"V", "e", "h", "i", "c", "l", "e", " ", "N", "e", "t", "w", "o", "r", "k">>,
    <<"V", "e", "h", "i", "c", "l", "e", " ", "A", "r", "c", "h", "i", "t", "e", "c", "t", "u", "r", "e">>,
    <<"C", "o", "n", "n", "e", "c", "t", "e", "d", " ", "C", "a", "r">>,
    <<"P", "l", "a", "t", "f", "o", "r", "m">>,
    <<"U+00B5", "C", "/", "H", "W">> >>

S_New == <<"N", "e", "w">>

\* absent value of the tags column (text[]): kept apart from null so that an
\* array of texts is only ever compared with an array of texts
nullTags == << null >>

----
\* parseCSVLine

\* wrong variant: a quote is kept in the field instead of being dropped
parseStepKeepsQuote(st, char) ==
    IF char = DQ
    THEN [result |-> st.result, current |-> Append(st.current, char),
          inQuotes |-> ~st.inQuotes]
    ELSE IF char = COMMA /\ ~st.inQuotes
    THEN [result |-> Append(st.result, Trim(st.current)), current |-> << >>,
          inQuotes |-> st.inQuotes]
    ELSE [result |-> st.result, current |-> Append(st.current, char),
          inQuotes |-> st.inQuotes]

\* wrong variant: a comma ends the field inside a quoted section too
parseStepSplitsInQuotes(st, char) ==
    IF char = DQ
    THEN [result |-> st.result, current |-> st.current, inQuotes |-> ~st.inQuotes]
    ELSE IF char = COMMA
    THEN [result |-> Append(st.result, Trim(st.current)), current |-> << >>,
          inQuotes |-> st.inQuotes]
    ELSE [result |-> st.result, current |-> Append(st.current, char),
          inQuotes |-> st.inQuotes]

\* one iteration of the loop of parseCSVLine on its locals
parseStep(st, char) ==
    IF char = DQ
    THEN [result |-> st.result, current |-> st.current, inQuotes |-> ~st.inQuotes]
    ELSE IF char = COMMA /\ ~st.inQuotes
    THEN [result |-> Append(st.result, Trim(st.current)), current |-> << >>,
          inQuotes |-> st.inQuotes]
    ELSE [result |-> st.result, current |-> Append(st.current, char),
          inQuotes |-> st.inQuotes]

\* the iterations for line[lo..hi] in order (evaluated by halves to keep the
\* evaluation shallow)
RECURSIVE parseRange(_, _, _, _)
parseRange(line, lo, hi, st) ==
    IF lo > hi THEN st
    ELSE IF lo = hi THEN parseStep(st, line[lo])
    ELSE LET mid == (lo + hi) \div 2
             left == parseRange(line, lo, mid, st)
         IN  \* the test makes the first half be evaluated before the second
             IF Len(left.result) >= 0 THEN parseRange(line, mid + 1, hi, left) ELSE left

parseCSVLine(line) ==
    LET st == parseRange(line, 1, Len(line),
                         [result |-> << >>, current |-> << >>, inQuotes |-> FALSE])
    IN  Append(st.result, Trim(st.current))

----
\* Header normalization: h.toLowerCase().replace(/[^a-z0-9_]/g, '_')

\* String.prototype.toLowerCase on one code unit.  U+0130 (capital I with dot
\* above) is the one code unit whose lower case is two code units (i, U+0307).
ToLowerUnit(c) ==
    IF \E i \in DOMAIN UpperCase : UpperCase[i] = c
    THEN << LowerCase[CHOOSE i \in DOMAIN UpperCase : UpperCase[i] = c] >>
    ELSE IF c = "U+0130" THEN << "i", "U+0307" >>
    ELSE << c >>

RECURSIVE toLowerCase(_)
toLowerCase(s) ==
    IF s = <<>> THEN <<>> ELSE ToLowerUnit(Head(s)) \o toLowerCase(Tail(s))

KeyUnits == Range(LowerCase) \cup Range(Digits) \cup {"_"}

\* wrong variant: blanks are kept instead of being replaced
normalizeKeepsSpace(h) ==
    [i \in DOMAIN toLowerCase(h) |->
        IF toLowerCase(h)[i] \in KeyUnits \cup {" "} THEN toLowerCase(h)[i] ELSE "_"]

normalizeHeader(h) ==
    LET l == toLowerCase(h)
    IN  [i \in DOMAIN l |-> IF l[i] \in KeyUnits THEN l[i] ELSE "_"]

----
\* Export serializer: one field

\* strValue.replace(/"/g, '""')
RECURSIVE doubleQuotes(_)
doubleQuotes(s) ==
    IF s = <<>> THEN <<>>
    ELSE IF Head(s) = DQ THEN <<DQ, DQ>> \o doubleQuotes(Tail(s))
    ELSE <<Head(s)>> \o doubleQuotes(Tail(s))

\* wrong variant: a value with a newline is not quoted
encodeFieldNoNewline(value) ==
    IF IsNullish(value) THEN <<>>
    ELSE IF Includes(value, COMMA) \/ Includes(value, DQ)
    THEN <<DQ>> \o doubleQuotes(value) \o <<DQ>>
    ELSE value

\* the tail of the headers.map callback, for a text or nullish value
encodeField(value) ==
    IF IsNullish(value) THEN <<>>
    ELSE IF Includes(value, COMMA) \/ Includes(value, DQ) \/ Includes(value, NL)
    THEN <<DQ>> \o doubleQuotes(value) \o <<DQ>>
    ELSE value

----
\* Record builder and validator (the row loop of handleImport)

At(a, idx) == IF idx \in DOMAIN a THEN a[idx] ELSE undefined

\* obj[k] of a JavaScript object
Get(obj, k) == IF k \in DOMAIN obj THEN obj[k] ELSE undefined

LastIndex(hs, k) ==
    CHOOSE i \in DOMAIN hs : hs[i] = k /\ \A j \in DOMAIN hs : hs[j] = k => j <= i

\* headers.forEach((header, idx) => { record[header] = values[idx] || null })
rowObject(hs, values) ==
    [k \in Range(hs) |-> Or(At(values, LastIndex(hs, k)), null)]

\* record.company_name || record.name || record.company
companyName(record) ==
    Or(Or(Get(record, k_company_name), Get(record, k_name)), Get(record, k_company))

\* wrong variant: the row's status is passed through unvalidated
rowStatusUnchecked(record) == Or(Get(record, k_status), S_New)

rowStatus(record) ==
    LET status == Or(Get(record, k_status), S_New)
    IN  IF ArrayIncludes(validStatuses, status) THEN status ELSE S_New

IsValidTag(t) == ArrayIncludes(validTags, t)

\* wrong variant: the tags field is split on commas only
rowTagsCommaOnly(record) ==
    IF Truthy(Get(record, k_tags))
    THEN Filter(Map(Split(Get(record, k_tags), {COMMA}), Trim), IsValidTag)
    ELSE <<>>

rowTags(record) ==
    IF Truthy(Get(record, k_tags))
    THEN Filter(Map(Split(Get(record, k_tags), {COMMA, SEMI}), Trim), IsValidTag)
    ELSE <<>>

\* the object pushed onto records
buildRecord(record, uid) ==
    LET tags == rowTags(record)
    IN  (k_id :> Or(Get(record, k_id), null))
     @@ (k_company_name :> companyName(record))
     @@ (k_email :> Or(Get(record, k_email), null))
     @@ (k_region :> Or(Get(record, k_region), null))
     @@ (k_country :> Or(Get(record, k_country), null))
     @@ (k_website :> Or(Get(record, k_website), null))
     @@ (k_company_type :> Or(Get(record, k_company_type), null))
     @@ (k_tags :> IF Len(tags) > 0 THEN tags ELSE nullTags)
     @@ (k_status :> rowStatus(record))
     @@ (k_notes :> Or(Get(record, k_notes), null))
     @@ (k_industry :> Or(Get(record, k_industry), null))
     @@ (k_phone :> Or(Get(record, k_phone), null))
     @@ (k_created_by :> Or(Get(record, k_created_by), uid))
     @@ (k_account_owner :> Or(Get(record, k_account_owner), uid))
     @@ (k_modified_by :> uid)

\* `Row ${i + 1}: Missing company_name`
MissingName(i) == << "Row ", i + 1, ": Missing company_name" >>

\* wrong variant: the loop stops at the first row without a name
RECURSIVE buildStopsAtError(_, _, _, _, _, _)
buildStopsAtError(ls, hs, uid, i, recs, errs) ==
    IF ~(i < Len(ls)) THEN [records |-> recs, errors |-> errs]
    ELSE LET record == rowObject(hs, parseCSVLine(ls[i + 1])) IN
         IF ~Truthy(companyName(record))
         THEN [records |-> recs, errors |-> Append(errs, MissingName(i))]
         ELSE buildStopsAtError(ls, hs, uid, i + 1,
                                Append(recs, buildRecord(record, uid)), errs)

\* for (let i = 1; i < lines.length; i++) { ... }, i being the 0-based index
RECURSIVE buildFrom(_, _, _, _, _, _)
buildFrom(ls, hs, uid, i, recs, errs) ==
    IF ~(i < Len(ls)) THEN [records |-> recs, errors |-> errs]
    ELSE LET record == rowObject(hs, parseCSVLine(ls[i + 1])) IN
         IF ~Truthy(companyName(record))
         THEN buildFrom(ls, hs, uid, i + 1, recs, Append(errs, MissingName(i)))
         ELSE buildFrom(ls, hs, uid, i + 1, Append(recs, buildRecord(record, uid)), errs)

IsBlank(line) == Trim(line) = <<>>
NotBlank(line) == ~IsBlank(line)

\* wrong variant: blank lines are kept
splitLinesKeepsBlank(text) == Split(text, {NL})

\* text.split('\n').filter(line => line.trim())
splitLines(text) == Filter(Split(text, {NL}), NotBlank)

\* parseCSVLine(lines[0]).map(h => ...)
parseHeaders(line) == Map(parseCSVLine(line), normalizeHeader)

----
\* Export serializer

exportHeaders == <<
    <<"i", "d">>,
    <<"c", "o", "m", "p", "a", "n", "y", "_", "n", "a", "m", "e">>,
    <<"e", "m", "a", "i", "l">>,
    <<"c", "o", "m", "p", "a", "n", "y", "_", "t", "y", "p", "e">>,
    <<"i", "n", "d", "u", "s", "t", "r", "y">>,
    <<"t", "a", "g", "s">>,
    <<"c", "o", "u", "n", "t", "r", "y">>,
    <<"s", "t", "a", "t", "u", "s">>,
    <<"w", "e", "b", "s", "i", "t", "e">>,
    <<"r", "e", "g", "i", "o", "n">>,
    <<"n", "o", "t", "e", "s">>,
    <<"p", "h", "o", "n", "e">>,
    <<"a", "c", "c", "o", "u", "n", "t", "_", "o", "w", "n", "e", "r">>,
    <<"c", "r", "e", "a", "t", "e", "d", "_", "b", "y">>,
    <<"m", "o", "d", "i", "f", "i", "e", "d", "_", "b", "y">>,
    <<"c", "r", "e", "a", "t", "e", "d", "_", "a", "t">>,
    <<"u", "p", "d", "a", "t", "e", "d", "_", "a", "t">> >>

\* wrong variant: a tags array is left to String(value), which joins with ','
fieldValueDefaultJoin(account, header) ==
    IF header = k_tags
    THEN IF account[k_tags] # nullTags THEN Join(account[k_tags], <<COMMA>>) ELSE null
    ELSE Get(account, header)

\* value = account[header], with a tags array joined by ';'
fieldValue(account, header) ==
    IF header = k_tags
    THEN IF account[k_tags] # nullTags THEN Join(account[k_tags], <<SEMI>>) ELSE null
    ELSE Get(account, header)

\* wrong variant: a value is written as it is, never quoted
exportFieldUnquoted(account, header) ==
    IF IsNullish(fieldValue(account, header)) THEN << >> ELSE fieldValue(account, header)

exportField(account, header) == encodeField(fieldValue(account, header))

exportRow(account) ==
    Join(Map(exportHeaders, LAMBDA header : exportField(account, header)), <<COMMA>>)

\* csvLines.join('\n')
csvContent(data) ==
    Join(<< Join(exportHeaders, <<COMMA>>) >> \o Map(data, exportRow), <<NL>>)

----
\* The accounts table behind supabase.from('accounts')

Columns == Range(exportHeaders)

Reverse(s) == [i \in DOMAIN s |-> s[Len(s) + 1 - i]]

\* decimal text of a number below 100
Decimal(n) ==
    IF n < 10 THEN << Digits[n + 1] >>
    ELSE << Digits[(n \div 10) + 1], Digits[(n % 10) + 1] >>

\* identifier the table assigns to its n-th row, and the time stamp of clock value n
RowId(n) == <<"e">> \o Decimal(n)
Stamp(n) == <<"t">> \o Decimal(n)

UserId == <<"u", "1">>

\* a row as the table completes it: every column present, id and stamps assigned
newRow(payload, n, clock) ==
    payload
    @@ (k_id :> RowId(n)) @@ (k_created_at :> Stamp(clock)) @@ (k_updated_at :> Stamp(clock))
    @@ (k_tags :> nullTags)
    @@ [c \in Columns |-> null]

\* .select('*').order('created_at', { ascending: false }): rows are kept in
\* creation order, created_at increasing along the table
selectAll(rows) == Reverse(rows)

Matching(rows, key, value) == Filter(rows, LAMBDA row : row[key] = value)

\* .select('id').eq(key, value).maybeSingle(): data is the one matching row (its
\* id), or null when no row matches and also when several do (then with an error)
maybeSingle(rows, key, value) ==
    IF Len(Matching(rows, key, value)) = 1 THEN Matching(rows, key, value)[1][k_id] ELSE null

\* .update(payload).eq('id', id)
applyUpdate(rows, payload, id) ==
    [i \in DOMAIN rows |-> IF rows[i][k_id] = id THEN payload @@ rows[i] ELSE rows[i]]

\* (variant: a table that keeps company_name unique drops the second row)
applyInsertUnique(rows, payload, clock) ==
    IF Matching(rows, k_company_name, payload[k_company_name]) # << >>
    THEN rows
    ELSE Append(rows, newRow(payload, Len(rows) + 1, clock))

\* .insert(payload)
applyInsert(rows, payload, clock) ==
    Append(rows, newRow(payload, Len(rows) + 1, clock))

----
\* Inputs: the files offered to handleImport and the tables it may start from

\* an empty file:
\*     
FileEmpty ==
    << >>

\* a header row and nothing else:
\*     id,company_name,status,tags,email
FileHeaderOnly ==
    << "i", "d", ",", "c", "o", "m", "p", "a", "n", "y", "_", "n", "a", "m",
       "e", ",", "s", "t", "a", "t", "u", "s", ",", "t", "a", "g", "s", ",",
       "e", "m", "a", "i", "l" >>

\* a header row followed by a blank line:
\*     id,company_name,status,tags,email
\*       
\*     
FileHeaderAndBlank ==
    << "i", "d", ",", "c", "o", "m", "p", "a", "n", "y", "_", "n", "a", "m",
       "e", ",", "s", "t", "a", "t", "u", "s", ",", "t", "a", "g", "s", ",",
       "e", "m", "a", "i", "l", NL, " ", " ", NL >>

\* one data row, without a name:
\*     id,company_name,status,tags,email
\*     e1,,Hot,BSW,
FileNoValidRow ==
    << "i", "d", ",", "c", "o", "m", "p", "a", "n", "y", "_", "n", "a", "m",
       "e", ",", "s", "t", "a", "t", "u", "s", ",", "t", "a", "g", "s", ",",
       "e", "m", "a", "i", "l", NL, "e", "1", ",", ",", "H", "o", "t", ",",
       "B", "S", "W", "," >>

\* rows without a name before, between and after two rows of the same name, and a blank line:
\*     id,company_name,status,tags,email
\*     e1,,Hot,BSW,
\*     ,C,Hot,"AUTOSAR; BSW, Unknown",c@x
\*     
\*     ,,,,
\*     ,C,Bogus,"Unknown, ;",
FileMixed ==
    << "i", "d", ",", "c", "o", "m", "p", "a", "n", "y", "_", "n", "a", "m",
       "e", ",", "s", "t", "a", "t", "u", "s", ",", "t", "a", "g", "s", ",",
       "e", "m", "a", "i", "l", NL, "e", "1", ",", ",", "H", "o", "t", ",",
       "B", "S", "W", ",", NL, ",", "C", ",", "H", "o", "t", ",", DQ, "A",
       "U", "T", "O", "S", "A", "R", ";", " ", "B", "S", "W", ",", " ", "U",
       "n", "k", "n", "o", "w", "n", DQ, ",", "c", "@", "x", NL, NL, ",",
       ",", ",", ",", NL, ",", "C", ",", "B", "o", "g", "u", "s", ",", DQ,
       "U", "n", "k", "n", "o", "w", "n", ",", " ", ";", DQ, "," >>

\* a row with a stale id and a row with a stored id:
\*     id,company_name,status,tags,email
\*     e9,A,New,,
\*     e1,B,,OTA;FuSa,
FileIds ==
    << "i", "d", ",", "c", "o", "m", "p", "a", "n", "y", "_", "n", "a", "m",
       "e", ",", "s", "t", "a", "t", "u", "s", ",", "t", "a", "g", "s", ",",
       "e", "m", "a", "i", "l", NL, "e", "9", ",", "A", ",", "N", "e", "w",
       ",", ",", NL, "e", "1", ",", "B", ",", ",", "O", "T", "A", ";", "F",
       "u", "S", "a", "," >>

\* a row that renames e1 to B, then a row named B:
\*     id,company_name,status,tags,email
\*     e1,B,,,
\*     ,B,Warm,Adaptive AUTOSAR,
FileRename ==
    << "i", "d", ",", "c", "o", "m", "p", "a", "n", "y", "_", "n", "a", "m",
       "e", ",", "s", "t", "a", "t", "u", "s", ",", "t", "a", "g", "s", ",",
       "e", "m", "a", "i", "l", NL, "e", "1", ",", "B", ",", ",", ",", NL,
       ",", "B", ",", "W", "a", "r", "m", ",", "A", "d", "a", "p", "t", "i",
       "v", "e", " ", "A", "U", "T", "O", "S", "A", "R", "," >>

\* the name aliases, headers to normalize, audit fields supplied by the first row:
\*     Name,Company Name,Company,Status!,Created By,Modified_By
\*     D,,,Hot,u2,u3
\*     ,,E,Hot,,
\*     ,,,,,
FileAliases ==
    << "N", "a", "m", "e", ",", "C", "o", "m", "p", "a", "n", "y", " ", "N",
       "a", "m", "e", ",", "C", "o", "m", "p", "a", "n", "y", ",", "S", "t",
       "a", "t", "u", "s", "!", ",", "C", "r", "e", "a", "t", "e", "d", " ",
       "B", "y", ",", "M", "o", "d", "i", "f", "i", "e", "d", "_", "B", "y",
       NL, "D", ",", ",", ",", "H", "o", "t", ",", "u", "2", ",", "u", "3",
       NL, ",", ",", "E", ",", "H", "o", "t", ",", ",", NL, ",", ",", ",",
       ",", "," >>

Files ==
    { FileEmpty, FileHeaderOnly, FileHeaderAndBlank, FileNoValidRow,
      FileMixed, FileIds, FileRename, FileAliases }

account(n, name, email, notes, tags) ==
    newRow((k_company_name :> name) @@ (k_email :> email) @@ (k_notes :> notes)
           @@ (k_tags :> tags) @@ (k_status :> S_New)
           @@ (k_created_by :> UserId) @@ (k_account_owner :> UserId)
           @@ (k_modified_by :> UserId),
           n, n)

InitStores == {
    << >>,
    << account(1, <<"A">>, <<"a", "@", "x">>, null,
               << <<"F", "u", "S", "a">>, <<"O", "T", "A">> >>),
       account(2, <<"B">>, null, <<"c", ",", " ", DQ, "I", DQ>>, nullTags) >>,
    << account(1, <<"A">>, null, <<"x", NL, "y", ",", "Z">>, nullTags) >> }

----
\* Bounds and inputs of the pure functions

\* code units the texts handed to the pure functions are made of
Alphabet == {"a", "B", "1", "_", " ", COMMA, DQ, NL, "U+0130"}

NotApplied == [fn |-> "none"]

\* no second invocation of handleImport; no handler of the modal run yet
NoPeer == [hook |-> "none"]
NoOp == [op |-> "none"]

MaxImports == 1     \* imports started in one behaviour
MaxFailures == 1    \* persistence requests that fail in one behaviour
MaxLen == 4         \* length of the texts the pure functions are applied to

----
\* handleImport

Idle == << >>

ImportFailed(message) ==
    [title |-> "Import Failed", description |-> message, variant |-> "destructive"]

\* `Created ${successCount} new accounts, updated ${updateCount} existing accounts...`
ImportSuccessful(created, updated, nErrors) ==
    [title |-> "Import Successful",
     description |-> << "Created ", created, " new accounts, updated ", updated,
                        " existing accounts" >>
                     \o (IF nErrors > 0 THEN << ". ", nErrors, " rows had errors." >>
                         ELSE << >>),
     variant |-> "default"]

NotAuthenticated == "User not authenticated"
TooFewLines == "CSV file must have headers and at least one data row"
NoValidRecords == "No valid records found in CSV"

\* whether a request may come back with an error
Outcomes == IF failures < MaxFailures THEN {TRUE, FALSE} ELSE {TRUE}

\* wrong variant: the busy flag is not cleared when an error is caught
ThrowKeepsBusy(message) ==
    /\ toasts' = Append(toasts, ImportFailed(message))
    /\ isImporting' = isImporting
    /\ pc' = "idle"

\* throw ...; catch: toast; finally: setIsImporting(false)
Throw(message) ==
    /\ toasts' = Append(toasts, ImportFailed(message))
    /\ isImporting' = FALSE
    /\ pc' = "idle"

\* const { id, ...recordWithoutId } = record
recordWithoutId(record) == [k \in DOMAIN record \ {k_id} |-> record[k]]

\* { ...recordWithoutId, updated_at: new Date().toISOString() }
updatePayload(record, clock) == (k_updated_at :> Stamp(clock)) @@ recordWithoutId(record)

\* where the loop body starts for a record: if (id) { ... }
EntryPc(record) == IF Truthy(record[k_id]) THEN "selectById" ELSE "selectByName"

StartImport(f) ==
    /\ pc = "idle"
    /\ imports < MaxImports
    /\ imports' = imports + 1
    /\ isImporting' = TRUE
    /\ file' = f
    /\ fromExport' = (store # << >> /\ exported = f /\ f = csvContent(selectAll(store)))
    /\ store0' = store
    /\ pc' = "getUser"
    /\ user' = null /\ lines' = << >> /\ headers' = << >> /\ records' = << >>
    /\ errors' = << >> /\ ri' = 0 /\ found' = null
    /\ successCount' = 0 /\ updateCount' = 0
    /\ calls' = << >> /\ toasts' = << >> /\ completions' = 0
    /\ UNCHANGED << store, now, exported, failures, arg, ret, peer, widgets, lastOp >>

\* const { data: { user } } = await supabase.auth.getUser(); if (!user) throw
GetUser(u) ==
    /\ pc = "getUser"
    /\ user' = u
    /\ IF u = null
       THEN Throw(NotAuthenticated)
       ELSE pc' = "readFile" /\ UNCHANGED << toasts, isImporting >>
    /\ UNCHANGED << file, fromExport, lines, headers, records, errors, ri, found,
                    successCount, updateCount, store, store0, now, calls, completions,
                    exported, failures, imports, arg, ret, peer, widgets, lastOp >>

\* from `await file.text()` to the first lookup: split, header, row loop, checks
ReadFile ==
    /\ pc = "readFile"
    /\ LET ls == splitLines(file) IN
       IF Len(ls) < 2
       THEN /\ lines' = ls
            /\ Throw(TooFewLines)
            /\ UNCHANGED << headers, records, errors, ri >>
       ELSE LET hs == parseHeaders(ls[1])
                built == buildFrom(ls, hs, user, 1, << >>, << >>)
            IN  /\ lines' = ls
                /\ headers' = hs
                /\ records' = built.records
                /\ errors' = built.errors
                /\ IF Len(built.records) = 0
                   THEN Throw(NoValidRecords) /\ UNCHANGED ri
                   ELSE /\ ri' = 1
                        /\ pc' = EntryPc(built.records[1])
                        /\ UNCHANGED << toasts, isImporting >>
    /\ UNCHANGED << user, file, fromExport, found, successCount, updateCount, store,
                    store0, now, calls, completions, exported, failures, imports, arg, ret, peer, widgets, lastOp >>

\* the message of an error thrown by the caller's onImportComplete
CallbackError == "onImportComplete threw"

\* after the write of records[ri]: the next record, or the end of the batch:
\* toast, onImportComplete() (which the caller supplies: it returns, or throws
\* inside the try block and is caught like any other error), finally
Continue(created, updated) ==
    /\ successCount' = created
    /\ updateCount' = updated
    /\ ri' = ri + 1
    /\ IF ri < Len(records)
       THEN /\ pc' = EntryPc(records[ri + 1])
            /\ UNCHANGED << toasts, completions, isImporting >>
       ELSE /\ \E thrown \in BOOLEAN :
                  toasts' = Append(toasts, ImportSuccessful(created, updated, Len(errors)))
                            \o (IF thrown THEN << ImportFailed(CallbackError) >> ELSE << >>)
            /\ completions' = completions + 1
            /\ isImporting' = FALSE
            /\ pc' = "idle"

Lookup(key, value, ok, nextFound, nextMissing) ==
    LET data == IF ok THEN maybeSingle(store, key, value) ELSE null
    IN  /\ found' = data
        /\ calls' = Append(calls, [op |-> "select", rec |-> ri, key |-> key,
                                   value |-> value, ok |-> ok, data |-> data,
                                   matches |-> Len(Matching(store, key, value))])
        /\ failures' = IF ok THEN failures ELSE failures + 1
        /\ pc' = IF data # null THEN nextFound ELSE nextMissing
        /\ UNCHANGED << isImporting, user, file, fromExport, lines, headers, records,
                        errors, ri, successCount, updateCount, store, store0, now,
                        toasts, completions, exported, imports, arg, ret, peer, widgets, lastOp >>

\* wrong variant: a record whose id is not found is inserted at once
SelectByIdThenInsert(ok) ==
    /\ pc = "selectById"
    /\ Lookup(k_id, records[ri][k_id], ok, "updateById", "insert")

\* supabase.from('accounts').select('id').eq('id', id).maybeSingle()
SelectById(ok) ==
    /\ pc = "selectById"
    /\ Lookup(k_id, records[ri][k_id], ok, "updateById", "selectByName")

\* supabase.from('accounts').select('id').eq('company_name', ...).maybeSingle()
SelectByName(ok) ==
    /\ pc = "selectByName"
    /\ Lookup(k_company_name, records[ri][k_company_name], ok, "updateByName", "insert")

\* wrong variant: an update is counted whether it succeeded or not
UpdateCountsAttempts(target, ok) ==
    LET payload == updatePayload(records[ri], now)
    IN  /\ store' = IF ok THEN applyUpdate(store, payload, target) ELSE store
        /\ calls' = Append(calls, [op |-> "update", rec |-> ri, target |-> target,
                                   payload |-> payload, ok |-> ok])
        /\ now' = now + 1
        /\ failures' = IF ok THEN failures ELSE failures + 1
        /\ Continue(successCount, updateCount + 1)
        /\ UNCHANGED << user, file, fromExport, lines, headers, records, errors, found,
                        store0, exported, imports, arg, ret, peer, widgets, lastOp >>

\* wrong variant: a failed update undoes the writes of the records before
UpdateRollsBack(target, ok) ==
    LET payload == updatePayload(records[ri], now)
    IN  /\ store' = IF ok THEN applyUpdate(store, payload, target) ELSE store0
        /\ calls' = Append(calls, [op |-> "update", rec |-> ri, target |-> target,
                                   payload |-> payload, ok |-> ok])
        /\ now' = now + 1
        /\ failures' = IF ok THEN failures ELSE failures + 1
        /\ Continue(successCount, IF ok THEN updateCount + 1 ELSE updateCount)
        /\ UNCHANGED << user, file, fromExport, lines, headers, records, errors, found,
                        store0, exported, imports, arg, ret, peer, widgets, lastOp >>

\* .update({...}).eq('id', ...) and the tally, by id and by name alike
Update(target, ok) ==
    LET payload == updatePayload(records[ri], now)
    IN  /\ store' = IF ok THEN applyUpdate(store, payload, target) ELSE store
        /\ calls' = Append(calls, [op |-> "update", rec |-> ri, target |-> target,
                                   payload |-> payload, ok |-> ok])
        /\ now' = now + 1
        /\ failures' = IF ok THEN failures ELSE failures + 1
        /\ Continue(successCount, IF ok THEN updateCount + 1 ELSE updateCount)
        /\ UNCHANGED << user, file, fromExport, lines, headers, records, errors, found,
                        store0, exported, imports, arg, ret, peer, widgets, lastOp >>

\* .update({...}).eq('id', id); if (!error) updateCount++; continue
UpdateById(ok) ==
    /\ pc = "updateById"
    /\ Update(records[ri][k_id], ok)

\* .update({...}).eq('id', existing.id); if (!error) updateCount++
UpdateByName(ok) ==
    /\ pc = "updateByName"
    /\ Update(found, ok)

\* (variant of Insert that counts the attempt, whether or not it succeeded)
InsertCountsAttempts(ok) ==
    /\ pc = "insert"
    /\ LET payload == recordWithoutId(records[ri])
       IN  /\ store' = IF ok THEN applyInsert(store, payload, now) ELSE store
           /\ calls' = Append(calls, [op |-> "insert", rec |-> ri, target |-> null,
                                      payload |-> payload, ok |-> ok])
    /\ now' = now + 1
    /\ failures' = IF ok THEN failures ELSE failures + 1
    /\ Continue(successCount + 1, updateCount)
    /\ UNCHANGED << user, file, fromExport, lines, headers, records, errors, found,
                    store0, exported, imports, arg, ret, peer, widgets, lastOp >>

\* (variant of Insert that raises both counts when the insert succeeded)
InsertCountsBoth(ok) ==
    /\ pc = "insert"
    /\ LET payload == recordWithoutId(records[ri])
       IN  /\ store' = IF ok THEN applyInsert(store, payload, now) ELSE store
           /\ calls' = Append(calls, [op |-> "insert", rec |-> ri, target |-> null,
                                      payload |-> payload, ok |-> ok])
    /\ now' = now + 1
    /\ failures' = IF ok THEN failures ELSE failures + 1
    /\ Continue(IF ok THEN successCount + 1 ELSE successCount,
                IF ok THEN updateCount + 1 ELSE updateCount)
    /\ UNCHANGED << user, file, fromExport, lines, headers, records, errors, found,
                    store0, exported, imports, arg, ret, peer, widgets, lastOp >>

\* .insert(recordWithoutId); if (!error) successCount++
Insert(ok) ==
    /\ pc = "insert"
    /\ LET payload == recordWithoutId(records[ri])
       IN  /\ store' = IF ok THEN applyInsert(store, payload, now) ELSE store
           /\ calls' = Append(calls, [op |-> "insert", rec |-> ri, target |-> null,
                                      payload |-> payload, ok |-> ok])
    /\ now' = now + 1
    /\ failures' = IF ok THEN failures ELSE failures + 1
    /\ Continue(IF ok THEN successCount + 1 ELSE successCount, updateCount)
    /\ UNCHANGED << user, file, fromExport, lines, headers, records, errors, found,
                    store0, exported, imports, arg, ret, peer, widgets, lastOp >>

----
\* handleExport

ExportToast(title, description, variant) ==
    [title |-> title, description |-> description, variant |-> variant]

\* (the parameter and the locals of an earlier handleImport no longer exist)
StartExport ==
    /\ pc = "idle"
    /\ pc' = "exportQuery"
    /\ toasts' = << >>
    /\ calls' = << >>
    /\ exported' = null
    /\ user' = null /\ file' = << >> /\ fromExport' = FALSE
    /\ lines' = << >> /\ headers' = << >> /\ records' = << >> /\ errors' = << >>
    /\ ri' = 0 /\ found' = null /\ successCount' = 0 /\ updateCount' = 0
    /\ completions' = 0
    /\ store0' = store
    /\ UNCHANGED << isImporting, store, now, failures, imports, arg, ret, peer, widgets, lastOp >>

\* wrong variant: an empty result is exported like any other
FinishExportOfAnything(ok) ==
    /\ pc = "exportQuery"
    /\ pc' = "idle"
    /\ failures' = IF ok THEN failures ELSE failures + 1
    /\ calls' = Append(calls, [op |-> "selectAll", ok |-> ok])
    /\ IF ~ok
       THEN /\ toasts' = Append(toasts, ExportToast("Export Failed", "query error",
                                                    "destructive"))
            /\ UNCHANGED exported
       ELSE /\ exported' = csvContent(selectAll(store))
            /\ toasts' = Append(toasts, ExportToast("Export Successful",
                                   << "Exported ", Len(store), " accounts to CSV." >>,
                                   "default"))
    /\ UNCHANGED << isImporting, user, file, fromExport, lines, headers, records, errors,
                    ri, found, successCount, updateCount, store, store0, now,
                    completions, imports, arg, ret, peer, widgets, lastOp >>

\* from the result of select('*').order(...) to the end of handleExport
FinishExport(ok) ==
    /\ pc = "exportQuery"
    /\ pc' = "idle"
    /\ failures' = IF ok THEN failures ELSE failures + 1
    /\ calls' = Append(calls, [op |-> "selectAll", ok |-> ok])
    /\ IF ~ok
       THEN /\ toasts' = Append(toasts, ExportToast("Export Failed", "query error",
                                                    "destructive"))
            /\ UNCHANGED exported
       ELSE IF Len(selectAll(store)) = 0
       THEN /\ toasts' = Append(toasts, ExportToast("No Data", "No accounts to export.",
                                                    "default"))
            /\ UNCHANGED exported
       ELSE /\ exported' = csvContent(selectAll(store))
            /\ toasts' = Append(toasts, ExportToast("Export Successful",
                                   << "Exported ", Len(store), " accounts to CSV." >>,
                                   "default"))
    /\ UNCHANGED << isImporting, user, file, fromExport, lines, headers, records, errors,
                    ri, found, successCount, updateCount, store, store0, now,
                    completions, imports, arg, ret, peer, widgets, lastOp >>

----
\* Specification of the hook

Init ==
    /\ pc = "idle"
    /\ isImporting = FALSE
    /\ user = null /\ file = << >> /\ fromExport = FALSE
    /\ lines = << >> /\ headers = << >> /\ records = << >> /\ errors = << >>
    /\ ri = 0 /\ found = null /\ successCount = 0 /\ updateCount = 0
    /\ store \in InitStores
    /\ store0 = store
    /\ now = Len(store) + 1
    /\ calls = << >> /\ toasts = << >> /\ completions = 0
    /\ exported = null
    /\ failures = 0 /\ imports = 0
    /\ arg = << >> /\ ret = NotApplied
    /\ peer = NoPeer
    /\ widgets = << >> /\ lastOp = NoOp

Next ==
    \/ \E f \in Files \cup (IF exported = null THEN {} ELSE {exported}) : StartImport(f)
    \/ \E u \in {null, UserId} : GetUser(u)
    \/ ReadFile
    \/ \E ok \in Outcomes : SelectById(ok)
    \/ \E ok \in Outcomes : UpdateById(ok)
    \/ \E ok \in Outcomes : SelectByName(ok)
    \/ \E ok \in Outcomes : UpdateByName(ok)
    \/ \E ok \in Outcomes : Insert(ok)
    \/ StartExport
    \/ \E ok \in Outcomes : FinishExport(ok)

Spec == Init /\ [][Next]_vars

\* a step of a running handleImport that follows the answer to a request
RequestStep ==
    \/ \E u \in {null, UserId} : GetUser(u)
    \/ \E ok \in Outcomes : SelectById(ok)
    \/ \E ok \in Outcomes : UpdateById(ok)
    \/ \E ok \in Outcomes : SelectByName(ok)
    \/ \E ok \in Outcomes : UpdateByName(ok)
    \/ \E ok \in Outcomes : Insert(ok)

\* every awaited promise of handleImport settles (a request is answered or
\* comes back with an error, the file's text is read) and the function is then
\* resumed. ReadFile is enabled exactly when pc = "readFile" and every ReadFile
\* step leaves that position, so WF_vars(ReadFile) is written as the
\* equivalent []<>(pc # "readFile").
SpecFair == Spec /\ WF_vars(RequestStep) /\ []<>(pc # "readFile")

----
\* Two invocations of handleImport at once: handleImport is an async function,
\* so a second invocation (on the same hook, or in another session with a hook
\* of its own) can start and run while the first is suspended at an await; both
\* talk to the same accounts table

\* the locals of the running invocation, and the busy flag of its hook
Context ==
    [pc |-> pc, isImporting |-> isImporting, user |-> user, file |-> file,
     fromExport |-> fromExport, lines |-> lines, headers |-> headers,
     records |-> records, errors |-> errors, ri |-> ri, found |-> found,
     successCount |-> successCount, updateCount |-> updateCount, store0 |-> store0,
     calls |-> calls, toasts |-> toasts, completions |-> completions]

\* where the second invocation runs: on the same hook, or on the hook of
\* another session
Hooks == {"same", "other"}

\* the files imported by the invocations that overlap
RaceFiles == {FileRename}

\* handleImport(f) is invoked while an earlier invocation is suspended at an
\* await: setIsImporting(true), then as in StartImport; the earlier invocation
\* keeps its locals
StartConcurrent(f) ==
    /\ peer.hook \in Hooks /\ ~peer.raced
    /\ pc \notin {"idle", "exportQuery"}
    /\ peer' = [peer EXCEPT !.raced = TRUE, !.ctx = Context]
    /\ isImporting' = TRUE
    /\ file' = f
    /\ fromExport' = (store # << >> /\ exported = f /\ f = csvContent(selectAll(store)))
    /\ store0' = store
    /\ pc' = "getUser"
    /\ user' = null /\ lines' = << >> /\ headers' = << >> /\ records' = << >>
    /\ errors' = << >> /\ ri' = 0 /\ found' = null
    /\ successCount' = 0 /\ updateCount' = 0
    /\ calls' = << >> /\ toasts' = << >> /\ completions' = 0
    /\ UNCHANGED << store, now, exported, failures, imports, arg, ret, widgets, lastOp >>

\* the running invocation is suspended at its await (or has ended) and the
\* other one, whose awaited promise has settled, is resumed; the busy flag is
\* one state of the hook when both run on the same hook
Resume ==
    /\ peer.hook \in Hooks /\ peer.raced
    /\ peer.ctx.pc # "idle"
    /\ peer' = [peer EXCEPT !.ctx = Context]
    /\ pc' = peer.ctx.pc
    /\ isImporting' = IF peer.hook = "same" THEN isImporting ELSE peer.ctx.isImporting
    /\ user' = peer.ctx.user /\ file' = peer.ctx.file
    /\ fromExport' = peer.ctx.fromExport
    /\ lines' = peer.ctx.lines /\ headers' = peer.ctx.headers
    /\ records' = peer.ctx.records /\ errors' = peer.ctx.errors
    /\ ri' = peer.ctx.ri /\ found' = peer.ctx.found
    /\ successCount' = peer.ctx.successCount /\ updateCount' = peer.ctx.updateCount
    /\ store0' = peer.ctx.store0
    /\ calls' = peer.ctx.calls /\ toasts' = peer.ctx.toasts
    /\ completions' = peer.ctx.completions
    /\ UNCHANGED << store, now, exported, failures, imports, arg, ret, widgets, lastOp >>

InitTwo ==
    /\ pc = "idle"
    /\ isImporting = FALSE
    /\ user = null /\ file = << >> /\ fromExport = FALSE
    /\ lines = << >> /\ headers = << >> /\ records = << >> /\ errors = << >>
    /\ ri = 0 /\ found = null /\ successCount = 0 /\ updateCount = 0
    /\ store \in InitStores
    /\ store0 = store
    /\ now = Len(store) + 1
    /\ calls = << >> /\ toasts = << >> /\ completions = 0
    /\ exported = null
    /\ failures = 0 /\ imports = 0
    /\ arg = << >> /\ ret = NotApplied
    /\ \E h \in Hooks : peer = [hook |-> h, raced |-> FALSE, ctx |-> NoPeer]
    /\ widgets = << >> /\ lastOp = NoOp

\* one invocation, and a second one that starts while the first is running
NextTwo ==
    \/ \E f \in RaceFiles : imports = 0 /\ StartImport(f)
    \/ \E f \in RaceFiles : StartConcurrent(f)
    \/ Resume
    \/ \E u \in {null, UserId} : GetUser(u)
    \/ ReadFile
    \/ \E ok \in Outcomes : SelectById(ok)
    \/ \E ok \in Outcomes : UpdateById(ok)
    \/ \E ok \in Outcomes : SelectByName(ok)
    \/ \E ok \in Outcomes : UpdateByName(ok)
    \/ \E ok \in Outcomes : Insert(ok)

SpecTwo == InitTwo /\ [][NextTwo]_vars

----
\* DashboardCustomizeModal: the widgets state and its handlers

DEFAULT_WIDGETS ==
    << [key |-> "leads", visible |-> TRUE, size |-> "small"],
       [key |-> "contacts", visible |-> TRUE, size |-> "small"],
       [key |-> "deals", visible |-> TRUE, size |-> "small"],
       [key |-> "actionItems", visible |-> TRUE, size |-> "small"],
       [key |-> "quickActions", visible |-> TRUE, size |-> "medium"],
       [key |-> "upcomingMeetings", visible |-> TRUE, size |-> "medium"],
       [key |-> "taskReminders", visible |-> TRUE, size |-> "medium"],
       [key |-> "recentActivities", visible |-> TRUE, size |-> "medium"],
       [key |-> "performance", visible |-> TRUE, size |-> "large"],
       [key |-> "leadStatus", visible |-> TRUE, size |-> "large"] >>

WidgetSize == {"small", "medium", "large"}

\* DEFAULT_WIDGETS.find(w => w.key === key): its index, 0 when there is none
findDefault(key) ==
    IF \E i \in DOMAIN DEFAULT_WIDGETS : DEFAULT_WIDGETS[i].key = key
    THEN CHOOSE i \in DOMAIN DEFAULT_WIDGETS : DEFAULT_WIDGETS[i].key = key
    ELSE 0

\* { ...w, visible: visibleWidgets.includes(w.key), size: widgetSizes[w.key] || w.size }
savedWidget(w, props) ==
    [key |-> w.key,
     visible |-> ArrayIncludes(props.visibleWidgets, w.key),
     size |-> IF w.key \in DOMAIN props.widgetSizes THEN props.widgetSizes[w.key]
              ELSE w.size]

\* the effect: the widgets of the saved order that are default widgets, in
\* that order, then the default widgets the saved order does not have
orderedWidgets(props) ==
    LET known == SelectSeq(props.widgetOrder, LAMBDA key : findDefault(key) # 0)
        saved == [i \in DOMAIN known |-> savedWidget(DEFAULT_WIDGETS[findDefault(known[i])], props)]
        missing == SelectSeq(DEFAULT_WIDGETS,
                             LAMBDA w : \A i \in DOMAIN saved : saved[i].key # w.key)
    IN  saved \o [i \in DOMAIN missing |-> savedWidget(missing[i], props)]

\* (variant of reorder that leaves the dragged item at its place as well)
reorderKeepsSource(items, source, destination) ==
    SubSeq(items, 1, destination) \o << items[source + 1] >>
        \o SubSeq(items, destination + 1, Len(items))

\* items.splice(source, 1) and items.splice(destination, 0, reorderedItem),
\* the indices counted from 0
reorder(items, source, destination) ==
    LET reorderedItem == items[source + 1]
        rest == SubSeq(items, 1, source) \o SubSeq(items, source + 2, Len(items))
    IN  SubSeq(rest, 1, destination) \o << reorderedItem >>
            \o SubSeq(rest, destination + 1, Len(rest))

\* the props the modal is given: the saved layouts (none saved; a full layout
\* in another order with hidden and resized widgets; a short layout with a key
\* that is no longer a widget)
SavedLayouts ==
    { [visibleWidgets |-> << >>, widgetOrder |-> << >>, widgetSizes |-> << >>],
      [visibleWidgets |-> << "leadStatus", "leads", "deals" >>,
       widgetOrder |-> << "leadStatus", "performance", "recentActivities",
                          "taskReminders", "upcomingMeetings", "quickActions",
                          "actionItems", "deals", "contacts", "leads" >>,
       widgetSizes |-> [key \in {"leads", "leadStatus"} |-> "medium"]],
      [visibleWidgets |-> << "deals", "legacy" >>,
       widgetOrder |-> << "deals", "legacy", "leads" >>,
       widgetSizes |-> [key \in {"legacy"} |-> "large"]] }

\* the widgets whose switch and size select the handlers are run for, and the
\* positions dragged from and to (0-based, as in DropResult)
HandledKeys == {"leads", "quickActions", "leadStatus"}
DragSources == {0, 9}
DragDestinations == {0, 4, 9}

MaxOps == 3     \* handlers that set the widgets state, run in one behaviour

\* the variables of useAccountsImportExport, which the modal does not touch
hookVars == << pc, isImporting, user, file, fromExport, lines, headers, records, errors,
               ri, found, successCount, updateCount, store, store0, now, calls, toasts,
               completions, exported, failures, imports, arg, ret, peer >>

\* handlers run so far that set the widgets state
opsRun == IF lastOp = NoOp THEN 0 ELSE lastOp.n

\* useEffect on [visibleWidgets, widgetOrder, widgetSizes, open]: runs after
\* the first render and whenever the props change
useEffect(props) ==
    /\ widgets' = orderedWidgets(props)
    /\ lastOp' = [op |-> "useEffect", n |-> opsRun, props |-> props]
    /\ UNCHANGED hookVars

toggleWidget(key) ==
    /\ lastOp # NoOp /\ opsRun < MaxOps
    /\ widgets' = [i \in DOMAIN widgets |->
                      IF widgets[i].key = key
                      THEN [widgets[i] EXCEPT !.visible = ~widgets[i].visible]
                      ELSE widgets[i]]
    /\ lastOp' = [op |-> "toggleWidget", n |-> opsRun + 1, key |-> key]
    /\ UNCHANGED hookVars

changeSize(key, size) ==
    /\ lastOp # NoOp /\ opsRun < MaxOps
    /\ widgets' = [i \in DOMAIN widgets |->
                      IF widgets[i].key = key
                      THEN [widgets[i] EXCEPT !.size = size]
                      ELSE widgets[i]]
    /\ lastOp' = [op |-> "changeSize", n |-> opsRun + 1, key |-> key, size |-> size]
    /\ UNCHANGED hookVars

\* result.destination of a drop outside the list (null)
NoDestination == [dropped |-> "outside"]

\* the drops the handler is run for: from and to a position, or to nowhere
DropResults ==
    { [source |-> [index |-> s], destination |-> [index |-> d]] :
          s \in DragSources, d \in DragDestinations }
    \cup { [source |-> [index |-> s], destination |-> NoDestination] : s \in DragSources }

\* if (!result.destination) return; otherwise the item is moved
handleDragEnd(result) ==
    /\ lastOp # NoOp /\ opsRun < MaxOps
    /\ result.source.index \in 0..(Len(widgets) - 1)
    /\ widgets' = IF result.destination = NoDestination THEN widgets
                  ELSE reorder(widgets, result.source.index, result.destination.index)
    /\ lastOp' = [op |-> "handleDragEnd", n |-> opsRun + 1, result |-> result]
    /\ UNCHANGED hookVars

\* onSave(visible, order, sizes)
handleSave ==
    /\ lastOp # NoOp
    /\ lastOp' = [op |-> "handleSave", n |-> opsRun,
                  visible |-> LET shown == SelectSeq(widgets, LAMBDA w : w.visible)
                              IN  [i \in DOMAIN shown |-> shown[i].key],
                  order |-> [i \in DOMAIN widgets |-> widgets[i].key],
                  sizes |-> [key \in { widgets[i].key : i \in DOMAIN widgets } |->
                                widgets[CHOOSE i \in DOMAIN widgets :
                                            widgets[i].key = key
                                            /\ \A j \in DOMAIN widgets :
                                                  widgets[j].key = key => j <= i].size]]
    /\ UNCHANGED widgets
    /\ UNCHANGED hookVars

handleReset ==
    /\ lastOp # NoOp /\ opsRun < MaxOps
    /\ widgets' = [i \in DOMAIN DEFAULT_WIDGETS |->
                      [DEFAULT_WIDGETS[i] EXCEPT !.visible = TRUE]]
    /\ lastOp' = [op |-> "handleReset", n |-> opsRun + 1]
    /\ UNCHANGED hookVars

\* useState([]), the hook of the accounts page idle
InitModal == Init /\ store = << >>

NextModal ==
    \/ \E props \in SavedLayouts : useEffect(props)
    \/ \E key \in HandledKeys : toggleWidget(key)
    \/ \E key \in HandledKeys \ {"quickActions"}, size \in WidgetSize : changeSize(key, size)
    \/ \E result \in DropResults : handleDragEnd(result)
    \/ handleSave
    \/ handleReset

SpecModal == InitModal /\ [][NextModal]_vars

----
\* Specification of the pure functions: each is applied to every text of at
\* most MaxLen code units of Alphabet and to the examples of the specification

ExampleLine == << "a", COMMA, DQ, "b", COMMA, "c", DQ, COMMA, "d" >>
ExampleHeader == << "C", "o", "m", "p", "a", "n", "y", " ", "N", "a", "m", "e", "!" >>
ExampleValue == << "A", "c", "m", "e", COMMA, " ", "I", "n", "c", "." >>

Texts == UNION { [1..n -> Alphabet] : n \in 0..MaxLen }

Args == Texts \cup {ExampleLine, ExampleHeader, ExampleValue, null, undefined}

InitPure ==
    /\ pc = "idle"
    /\ isImporting = FALSE
    /\ user = null /\ file = << >> /\ fromExport = FALSE
    /\ lines = << >> /\ headers = << >> /\ records = << >> /\ errors = << >>
    /\ ri = 0 /\ found = null /\ successCount = 0 /\ updateCount = 0
    /\ store = << >> /\ store0 = << >> /\ now = 1
    /\ calls = << >> /\ toasts = << >> /\ completions = 0
    /\ exported = null
    /\ failures = 0 /\ imports = 0
    /\ arg \in Args
    /\ ret = NotApplied
    /\ peer = NoPeer
    /\ widgets = << >> /\ lastOp = NoOp

Apply(fn, value) ==
    /\ ret = NotApplied
    /\ ret' = [fn |-> fn, value |-> value]
    /\ UNCHANGED << pc, isImporting, user, file, fromExport, lines, headers, records,
                    errors, ri, found, successCount, updateCount, store, store0, now,
                    calls, toasts, completions, exported, failures, imports, arg,
                    peer, widgets, lastOp >>

ApplyParse == ~IsNullish(arg) /\ Apply("parseCSVLine", parseCSVLine(arg))

ApplyNormalize == ~IsNullish(arg) /\ Apply("normalizeHeader", normalizeHeader(arg))

ApplyEncode == Apply("encodeField", encodeField(arg))

\* a field written by handleExport is read back by handleImport
ApplyRoundTrip == ~IsNullish(arg) /\ Apply("roundTrip", parseCSVLine(encodeField(arg)))

NextPure == ApplyParse \/ ApplyNormalize \/ ApplyEncode \/ ApplyRoundTrip

SpecPure == InitPure /\ [][NextPure]_vars
----
\* Notions the properties are stated with, defined without the loops above

Min(S) == CHOOSE x \in S : \A y \in S : x <= y
Max(S) == CHOOSE x \in S : \A y \in S : y <= x

\* number of double quotes of s before position i
QuotesBefore(s, i) == Cardinality({ j \in 1..(i - 1) : s[j] = DQ })

\* positions of the commas of a line that are outside quoted sections
OutsideCommas(line) ==
    { i \in DOMAIN line : line[i] = COMMA /\ QuotesBefore(line, i) % 2 = 0 }

\* the pieces of s between the positions P, in order
Segments(s, P) ==
    LET edge(k) == IF k = 0 THEN 0
                   ELSE IF k > Cardinality(P) THEN Len(s) + 1
                   ELSE CHOOSE p \in P : Cardinality({ q \in P : q <= p }) = k
    IN  [k \in 1..(Cardinality(P) + 1) |-> SubSeq(s, edge(k - 1) + 1, edge(k) - 1)]

WithoutQuotes(s) == SelectSeq(s, LAMBDA c : c # DQ)

\* s from its first to its last code unit that is not white space
Stripped(s) ==
    LET inked == { i \in DOMAIN s : s[i] \notin WhiteSpace }
    IN  IF inked = {} THEN << >> ELSE SubSeq(s, Min(inked), Max(inked))

LowerOf(c) ==
    IF \E i \in DOMAIN UpperCase : UpperCase[i] = c
    THEN LowerCase[CHOOSE i \in DOMAIN UpperCase : UpperCase[i] = c]
    ELSE c

\* the key character a header character other than U+0130 becomes
KeyOf(c) == IF LowerOf(c) \in KeyUnits THEN LowerOf(c) ELSE "_"

DottedBefore(s, i) == Cardinality({ j \in 1..(i - 1) : s[j] = "U+0130" })

HasSpecial(s) == Includes(s, COMMA) \/ Includes(s, DQ) \/ Includes(s, NL)

----
\* Properties of the pure functions (specification SpecPure)

\* C8: parseCSVLine returns one field per comma outside quoted sections plus
\* one; the k-th field is the k-th piece between those commas with its quote
\* characters dropped and trimmed, so a comma inside quotes does not split, no
\* field contains a quote and every field is trimmed; a,"b,c",d gives a / b,c / d.
C8_ParseFields ==
    ret.fn = "parseCSVLine" =>
        LET fields == ret.value
            pieces == Segments(arg, OutsideCommas(arg))
        IN  /\ Len(fields) = Cardinality(OutsideCommas(arg)) + 1
            /\ \A k \in DOMAIN fields :
                  /\ fields[k] = Stripped(WithoutQuotes(pieces[k]))
                  /\ ~Includes(fields[k], DQ)
                  /\ fields[k] # << >> =>
                        /\ fields[k][1] \notin WhiteSpace
                        /\ fields[k][Len(fields[k])] \notin WhiteSpace
            /\ arg = ExampleLine =>
                  fields = << <<"a">>, <<"b", COMMA, "c">>, <<"d">> >>

\* a line with a comma inside a quoted section has been parsed
C8_Witness ==
    /\ ret.fn = "parseCSVLine"
    /\ arg = ExampleLine
    /\ Len(ret.value) = 3

\* C9 as stated: a normalized header key is as long as the header, is made of
\* [a-z0-9_] only, and is the header lower-cased with every other character
\* replaced by an underscore.
C9_SameLength ==
    ret.fn = "normalizeHeader" =>
        /\ Len(ret.value) = Len(arg)
        /\ \A i \in DOMAIN ret.value : ret.value[i] \in KeyUnits
        /\ \A i \in DOMAIN arg : i \in DOMAIN ret.value /\ ret.value[i] = KeyOf(arg[i])

\* C9 amended: a normalized header key is made of [a-z0-9_] only and is the
\* header lower-cased with every other code unit replaced by an underscore;
\* it is as long as the header plus one for every U+0130 in the header, whose
\* lower case is two code units and which becomes i_ ("Company Name!" becomes
\* company_name_).
C9_NormalizedKey ==
    ret.fn = "normalizeHeader" =>
        /\ \A i \in DOMAIN ret.value : ret.value[i] \in KeyUnits
        /\ Len(ret.value) = Len(arg) + DottedBefore(arg, Len(arg) + 1)
        /\ \A i \in DOMAIN arg :
              LET p == i + DottedBefore(arg, i)
              IN  IF arg[i] = "U+0130"
                  THEN ret.value[p] = "i" /\ ret.value[p + 1] = "_"
                  ELSE ret.value[p] = KeyOf(arg[i])
        /\ arg = ExampleHeader =>
              ret.value = << "c", "o", "m", "p", "a", "n", "y", "_", "n", "a", "m", "e", "_" >>

\* a header with upper case, a blank and a character to replace was normalized
C9_Witness ==
    /\ ret.fn = "normalizeHeader"
    /\ arg = ExampleHeader
    /\ ret.value[Len(ret.value)] = "_"

\* C10: an exported value with a comma, a double quote or a newline is written
\* between double quotes with every double quote of it doubled; any other
\* value is written unchanged; null and undefined are written as the empty
\* field, never as the text null or undefined.
C10_EncodeField ==
    ret.fn = "encodeField" =>
        /\ IsNullish(arg) => ret.value = << >>
        /\ ret.value \notin { <<"n", "u", "l", "l">>,
                              <<"u", "n", "d", "e", "f", "i", "n", "e", "d">> }
        /\ ~IsNullish(arg) /\ ~HasSpecial(arg) => ret.value = arg
        /\ ~IsNullish(arg) /\ HasSpecial(arg) =>
              LET out == ret.value
                  inner == SubSeq(out, 2, Len(out) - 1)
              IN  /\ Len(out) >= 2 /\ out[1] = DQ /\ out[Len(out)] = DQ
                  /\ Len(inner) = Len(arg) + QuotesBefore(arg, Len(arg) + 1)
                  /\ \A i \in DOMAIN arg :
                        LET p == i + QuotesBefore(arg, i)
                        IN  /\ inner[p] = arg[i]
                            /\ arg[i] = DQ => inner[p + 1] = DQ
        /\ arg = ExampleValue => ret.value = <<DQ>> \o ExampleValue \o <<DQ>>

\* a value with a double quote and a newline was encoded
C10_Witness ==
    /\ ret.fn = "encodeField"
    /\ ~IsNullish(arg)
    /\ Includes(arg, DQ) /\ Includes(arg, NL)
    /\ Len(ret.value) = Len(arg) + 3

----
\* Properties of handleImport (specification Spec)

\* all lines of a text, and those that are not blank
FileLines(text) == Segments(text, { i \in DOMAIN text : text[i] = NL })
NonBlankLines(text) == SelectSeq(FileLines(text), LAMBDA l : Stripped(l) # << >>)

\* the row loop has run
Built == Len(lines) >= 2

\* the mapping of data line j (2..Len(lines)) under the normalized headers
RowOf(j) == rowObject(headers, parseCSVLine(lines[j]))

NoName(row) ==
    \A k \in {k_company_name, k_name, k_company} : ~Truthy(Get(row, k))

\* the mappings of all data lines
Rows == [j \in 2..Len(lines) |-> RowOf(j)]

NamelessIn(rows) == { j \in DOMAIN rows : NoName(rows[j]) }
NamedIn(rows) == { j \in DOMAIN rows : ~NoName(rows[j]) }

\* the import record built from data line j, one of the named lines
RecordOf(named, j) == records[Cardinality({ i \in named : i <= j })]

IsWrite(c) == c.op \in {"update", "insert"}
WritesOf(k) == { n \in DOMAIN calls : IsWrite(calls[n]) /\ calls[n].rec = k }

\* the import was ended by an error thrown before the end of the batch; the
\* import got to the end of the batch
Failed == toasts # << >> /\ toasts[1].title = "Import Failed"
Succeeded == \E i \in DOMAIN toasts : toasts[i].title = "Import Successful"

Reconciling ==
    pc \in {"selectById", "updateById", "selectByName", "updateByName", "insert"}

\* the row loop has just run: the import is about to send its first request,
\* or has failed for want of a valid record
JustBuilt == Built /\ calls = << >> /\ (Reconciling \/ Failed)

\* C4: a data row whose company_name, name and company are all empty or
\* missing gives no import record and exactly one error, and the rows after it
\* are still built (when the row loop has run there is one error per nameless
\* row and one record per named row, in order) and reconciled (one write per
\* record once the import has ended).
C4_NamelessRowSkipped ==
    /\ Built => Len(errors) + Len(records) = Len(lines) - 1
    /\ Succeeded => \A k \in DOMAIN records : Cardinality(WritesOf(k)) = 1
    /\ JustBuilt =>
          LET rows == Rows
              named == NamedIn(rows)
          IN  /\ Len(errors) = Cardinality(NamelessIn(rows))
              /\ Len(records) = Cardinality(named)
              /\ \A j \in named :
                    RecordOf(named, j)[k_company_name]
                        \in { Get(rows[j], k) : k \in {k_company_name, k_name, k_company} }

\* an import ended after a nameless row was followed by named rows
C4_Witness ==
    /\ Succeeded
    /\ \E j \in NamelessIn(Rows) : \E i, h \in NamedIn(Rows) : h < j /\ j < i
    /\ Len(errors) = 2
    /\ Len(records) = 2

\* C5: an import by an unauthenticated user, of a file with fewer than two
\* (non-blank) lines, or of a file without a valid record ends with one failure
\* notification whose message tells the cause, the three messages differing,
\* and has issued no request against the accounts table, which is unchanged;
\* no such import gets to the reconciliation (it starts only with a user, two
\* non-blank lines and a named row) or to the success notification.
C5_FatalBeforePersistence ==
    /\ NotAuthenticated # TooFewLines
    /\ NotAuthenticated # NoValidRecords
    /\ TooFewLines # NoValidRecords
    /\ (Reconciling \/ Succeeded \/ \E n \in DOMAIN calls : calls[n].op # "selectAll") =>
          /\ user # null
          /\ Len(FileLines(file)) >= 2
          /\ records # << >>
    /\ (Reconciling /\ calls = << >>) =>
          /\ Len(NonBlankLines(file)) >= 2
          /\ NamedIn(Rows) # {}
    /\ Failed =>
          /\ pc = "idle" /\ ~isImporting
          /\ Len(toasts) = 1
          /\ toasts[1].variant = "destructive"
          /\ calls = << >>
          /\ store = store0
          /\ toasts[1].description =
                IF user = null THEN NotAuthenticated
                ELSE IF Len(NonBlankLines(file)) < 2 THEN TooFewLines
                ELSE NoValidRecords
          /\ toasts[1].description = NoValidRecords =>
                NamedIn(Rows) = {} /\ records = << >>

\* the import of a file with a header row only has failed, the table not empty
C5_Witness ==
    /\ Failed
    /\ toasts[1].description = TooFewLines
    /\ file = FileHeaderOnly
    /\ store # << >>

\* C6: the status of every import record is one of validStatuses: the row's
\* status when that is one of them, "New" for any other, empty or missing
\* value; such a row is neither rejected nor counted as an error.
C6_StatusNormalized ==
    /\ \A k \in DOMAIN records : ArrayIncludes(validStatuses, records[k][k_status])
    /\ JustBuilt =>
          LET rows == Rows
              named == NamedIn(rows)
          IN  /\ Len(records) = Cardinality(named)
              /\ Len(errors) = Cardinality(NamelessIn(rows))
              /\ \A j \in named :
                    LET given == Get(rows[j], k_status)
                        status == RecordOf(named, j)[k_status]
                    IN  IF Truthy(given) /\ ArrayIncludes(validStatuses, given)
                        THEN status = given
                        ELSE status = S_New

\* records were built from a row with status Bogus and from a row with status Hot
C6_Witness ==
    /\ Built
    /\ \E j \in NamedIn(Rows) :
          /\ Get(RowOf(j), k_status) = <<"B", "o", "g", "u", "s">>
          /\ RecordOf(NamedIn(Rows), j)[k_status] = S_New
    /\ \E j \in NamedIn(Rows) :
          /\ Get(RowOf(j), k_status) = <<"H", "o", "t">>
          /\ RecordOf(NamedIn(Rows), j)[k_status] = <<"H", "o", "t">>

\* the pieces of a tags field: cut at every comma and semicolon, each trimmed
TagPieces(raw) ==
    LET cut == Segments(raw, { i \in DOMAIN raw : raw[i] \in {COMMA, SEMI} })
    IN  [k \in DOMAIN cut |-> Stripped(cut[k])]

\* C7: the tags of an import record are the pieces of the row's tags field
\* (cut at commas and semicolons, trimmed) that are in validTags, in order;
\* other pieces are dropped without an error; with no piece left the tags are
\* null, never an empty list.
C7_TagsFiltered ==
    /\ \A k \in DOMAIN records :
          LET tags == records[k][k_tags]
          IN  /\ tags # << >>
              /\ tags # nullTags => \A i \in DOMAIN tags : ArrayIncludes(validTags, tags[i])
    /\ JustBuilt =>
          LET rows == Rows
              named == NamedIn(rows)
          IN  /\ Len(errors) = Cardinality(NamelessIn(rows))
              /\ \A j \in named :
                    LET raw == Get(rows[j], k_tags)
                        kept == IF Truthy(raw)
                                THEN SelectSeq(TagPieces(raw),
                                               LAMBDA t : ArrayIncludes(validTags, t))
                                ELSE << >>
                    IN  RecordOf(named, j)[k_tags]
                            = IF kept # << >> THEN kept ELSE nullTags

\* records were built from a tags field with both separators and an unknown
\* tag, and from a tags field with no known tag
C7_Witness ==
    /\ Built
    /\ \E j \in NamedIn(Rows) :
          /\ Includes(Get(RowOf(j), k_tags), COMMA)
          /\ Includes(Get(RowOf(j), k_tags), SEMI)
          /\ RecordOf(NamedIn(Rows), j)[k_tags]
                = << <<"A", "U", "T", "O", "S", "A", "R">>, <<"B", "S", "W">> >>
    /\ \E j \in NamedIn(Rows) :
          /\ Truthy(Get(RowOf(j), k_tags))
          /\ RecordOf(NamedIn(Rows), j)[k_tags] = nullTags

\* the lookups of record k by a key: positions in calls
LookupsOf(k, key) ==
    { n \in DOMAIN calls : calls[n].op = "select" /\ calls[n].rec = k /\ calls[n].key = key }

\* some stored row matched the lookup of record k by key when it was made
Stored(k, key) == \E n \in LookupsOf(k, key) : calls[n].matches > 0

\* no lookup of the running import came back with a request error
LookupsAnswered ==
    \A n \in DOMAIN calls : calls[n].op = "select" => calls[n].ok

\* every write of the running import succeeded
WritesSucceeded ==
    \A n \in DOMAIN calls : IsWrite(calls[n]) => calls[n].ok

\* C1 as stated (for imports whose lookups are all answered): every reconciled
\* record has exactly one write; it is an update of the stored row with the
\* record's id when there is one, else an update of a stored row with the
\* record's company_name when there is one, else an insert; the payload has no
\* id, and the ids of the stored rows never change.
C1_OneWritePerRecord ==
    LookupsAnswered =>
        /\ \A k \in DOMAIN records :
              /\ k < ri => Cardinality(WritesOf(k)) = 1
              /\ k > ri => Cardinality(WritesOf(k)) = 0
        /\ \A i \in DOMAIN store0 : store[i][k_id] = store0[i][k_id]
        /\ \A n \in DOMAIN calls :
              IsWrite(calls[n]) =>
                  LET w == calls[n]
                      r == records[w.rec]
                  IN  /\ k_id \notin DOMAIN w.payload
                      /\ IF Truthy(r[k_id]) /\ Stored(w.rec, k_id)
                         THEN w.op = "update" /\ w.target = r[k_id]
                         ELSE IF Stored(w.rec, k_company_name)
                         THEN /\ w.op = "update"
                              /\ \E m \in LookupsOf(w.rec, k_company_name) :
                                    calls[m].data = w.target
                         ELSE w.op = "insert"

\* C2 as stated (for imports whose lookups are all answered): the import of an
\* unmodified export of the table, every update succeeding, ends with no
\* insert and one update per exported row, the table as long as before.
C2_ReimportUpdatesInPlace ==
    (Succeeded /\ fromExport /\ LookupsAnswered /\ WritesSucceeded) =>
        /\ successCount = 0
        /\ updateCount = Len(store0)
        /\ Len(store) = Len(store0)
        /\ \A n \in DOMAIN calls : calls[n].op # "insert"
        /\ \A i \in DOMAIN store0 :
              Cardinality({ n \in DOMAIN calls :
                              calls[n].op = "update"
                              /\ calls[n].target = store0[i][k_id] }) = 1

\* C3: when the lookup by id of a record finds nothing, the import does not
\* fail and does not skip the record: the next request is the lookup by the
\* record's company_name, then the update of the row it found or else an
\* insert, and once the import has ended every later record has been written too.
C3_StaleIdFallsBack ==
    \A n \in DOMAIN calls :
        (calls[n].op = "select" /\ calls[n].key = k_id /\ calls[n].data = null) =>
            LET k == calls[n].rec IN
            /\ ~Failed
            /\ IF n = Len(calls)
               THEN pc = "selectByName" /\ ri = k
               ELSE /\ calls[n + 1].op = "select"
                    /\ calls[n + 1].key = k_company_name
                    /\ calls[n + 1].value = records[k][k_company_name]
                    /\ calls[n + 1].rec = k
                    /\ IF n + 1 = Len(calls)
                       THEN /\ ri = k
                            /\ pc = IF calls[n + 1].data # null THEN "updateByName"
                                    ELSE "insert"
                       ELSE /\ calls[n + 2].rec = k
                            /\ IF calls[n + 1].data # null
                               THEN /\ calls[n + 2].op = "update"
                                    /\ calls[n + 2].target = calls[n + 1].data
                               ELSE calls[n + 2].op = "insert"
            /\ pc = "idle" =>
                  /\ Succeeded
                  /\ \A later \in k..Len(records) : Cardinality(WritesOf(later)) = 1

\* an import has ended in which a record's id matched no stored row, the record
\* then updated the row with its company_name, and a later record was written
C3_Witness ==
    /\ Succeeded
    /\ \E n \in DOMAIN calls :
          /\ calls[n].op = "select" /\ calls[n].key = k_id /\ calls[n].ok
          /\ calls[n].matches = 0
          /\ n + 2 <= Len(calls)
          /\ calls[n + 2].op = "update"
          /\ calls[n].rec < Len(records)

----
\* Properties of handleExport (specification Spec)

\* positions of the code unit c in s that are outside quoted sections
Outside(s, c) ==
    LET quotes == { j \in DOMAIN s : s[j] = DQ }
    IN  { i \in DOMAIN s : s[i] = c /\ Cardinality({ q \in quotes : q < i }) % 2 = 0 }

\* the rows of a CSV text (a newline inside quotes does not end a row), header
\* row first, and the fields of a row (a comma inside quotes does not end a field)
CsvRows(text) == Segments(text, Outside(text, NL))
CsvFields(row) == Segments(row, Outside(row, COMMA))

\* the last operation was an export and it has generated a file
ExportDone ==
    /\ pc = "idle"
    /\ Len(toasts) = 1
    /\ toasts[1].title = "Export Successful"

\* the fields of the exported row whose id field is id
ExportedFieldsOf(id) ==
    LET rows == CsvRows(exported)
        r == CHOOSE r \in 2..Len(rows) : CsvFields(rows[r])[1] = id
    IN  CsvFields(rows[r])

\* C11: in a generated export, the tags field (the sixth) of the row of every
\* entity with a list of tags holds the tags in stored order with one semicolon
\* between neighbours and nothing else: no comma, no quote (FuSa, OTA gives
\* FuSa;OTA).
C11_TagsJoinedBySemicolon ==
    ExportDone =>
        LET rows == CsvRows(exported)
            fields == [r \in 2..Len(rows) |-> CsvFields(rows[r])]
        IN  \A e \in DOMAIN store :
                store[e][k_tags] # nullTags =>
                    LET mine == { r \in DOMAIN fields : fields[r][1] = store[e][k_id] }
                    IN  /\ Cardinality(mine) = 1
                        /\ \A r \in mine :
                              LET field == fields[r][6]
                              IN  /\ ~Includes(field, COMMA)
                                  /\ ~Includes(field, DQ)
                                  /\ Segments(field, { i \in DOMAIN field : field[i] = SEMI })
                                        = store[e][k_tags]

\* an export has written the tags FuSa and OTA as FuSa;OTA
C11_Witness ==
    /\ ExportDone
    /\ \E e \in DOMAIN store :
          /\ store[e][k_tags] = << <<"F", "u", "S", "a">>, <<"O", "T", "A">> >>
          /\ ExportedFieldsOf(store[e][k_id])[6]
                = <<"F", "u", "S", "a", SEMI, "O", "T", "A">>

\* the header row of an export:
\*     id,company_name,email,company_type,industry,tags,country,status,website,
\*     region,notes,phone,account_owner,created_by,modified_by,created_at,updated_at
PublishedHeaderRow ==
    << "i", "d", ",", "c", "o", "m", "p", "a", "n", "y", "_", "n", "a", "m",
       "e", ",", "e", "m", "a", "i", "l", ",", "c", "o", "m", "p", "a", "n",
       "y", "_", "t", "y", "p", "e", ",", "i", "n", "d", "u", "s", "t", "r",
       "y", ",", "t", "a", "g", "s", ",", "c", "o", "u", "n", "t", "r", "y",
       ",", "s", "t", "a", "t", "u", "s", ",", "w", "e", "b", "s", "i", "t",
       "e", ",", "r", "e", "g", "i", "o", "n", ",", "n", "o", "t", "e", "s",
       ",", "p", "h", "o", "n", "e", ",", "a", "c", "c", "o", "u", "n", "t",
       "_", "o", "w", "n", "e", "r", ",", "c", "r", "e", "a", "t", "e", "d",
       "_", "b", "y", ",", "m", "o", "d", "i", "f", "i", "e", "d", "_", "b",
       "y", ",", "c", "r", "e", "a", "t", "e", "d", "_", "a", "t", ",", "u",
       "p", "d", "a", "t", "e", "d", "_", "a", "t" >>

\* the exported ids, one per data row
ExportedIds(rows) == [r \in 1..(Len(rows) - 1) |-> CsvFields(rows[r + 1])[1]]

\* what C12 says of a generated export, but for the number n of columns: its header
\* row is the fixed row above, of n names, whatever the table holds and whatever
\* was imported; there is one data row per stored entity (each id once), and
\* every data row has as many fields as the header row.
ExportShape(n) ==
    LET rows == CsvRows(exported)
        ids == ExportedIds(rows)
        width == Len(CsvFields(rows[1]))
    IN  /\ rows[1] = PublishedHeaderRow
        /\ width = n
        /\ Len(rows) = Len(store) + 1
        /\ \A e \in DOMAIN store :
              Cardinality({ r \in DOMAIN ids : ids[r] = store[e][k_id] }) = 1
        /\ \A r \in 2..Len(rows) : Len(CsvFields(rows[r])) = width

\* C12 as stated: the header row of every export is the same fixed list of 18
\* column names, with one data row per entity, each of as many fields.
C12_EighteenColumns == ExportDone => ExportShape(18)

\* C12, amended: the header row of every export is the same fixed list of 17
\* column names, independent of the stored data and of any imported headers;
\* there is one data row per exported entity and every data row has exactly as
\* many fields as the header row (quoted commas and newlines not separating).
C12_SeventeenColumns == ExportDone => ExportShape(17)

\* two entities, one with a comma in its notes, have been exported after an import
C12_Witness ==
    /\ ExportDone
    /\ Len(store) = 2
    /\ imports > 0
    /\ \E e \in DOMAIN store : Includes(store[e][k_notes], COMMA)

\* the last operation was an export and it has ended
ExportEnded == pc = "idle" /\ calls # << >> /\ calls[Len(calls)].op = "selectAll"

\* C13: an export whose query reports an error ends with one failure
\* notification and no file; one whose query succeeds with no row ends with the
\* "No Data" notice, which is not a failure notification, and no file; a file is
\* generated, with the success notification, exactly when the query succeeded
\* with at least one row, and never before the query is answered.
C13_ExportOutcomes ==
    /\ pc = "exportQuery" => exported = null /\ toasts = << >>
    /\ ExportEnded =>
          /\ Len(calls) = 1
          /\ Len(toasts) = 1
          /\ ~calls[1].ok =>
                /\ toasts[1].title = "Export Failed"
                /\ toasts[1].variant = "destructive"
                /\ exported = null
          /\ (calls[1].ok /\ Len(store) = 0) =>
                /\ toasts[1].title = "No Data"
                /\ toasts[1].variant # "destructive"
                /\ exported = null
          /\ (calls[1].ok /\ Len(store) > 0) =>
                /\ toasts[1].title = "Export Successful"
                /\ toasts[1].variant # "destructive"
                /\ exported # null

\* the export of an empty table has ended with the "No Data" notice
C13_Witness ==
    /\ ExportEnded
    /\ calls[1].ok
    /\ store = << >>
    /\ toasts[1].title = "No Data"

----
\* Properties of the hook as a whole (specification Spec)

\* C14 as stated: the busy flag isImporting is true exactly while an import or
\* an export is running.
C14_BusyWhileRunning == isImporting <=> pc # "idle"

----
\* Properties of the end of an import (specification Spec)

\* the requests of a kind that succeeded
Done(op) == { n \in DOMAIN calls : calls[n].op = op /\ calls[n].ok }

\* C15 as stated: an import that has reached the end of the batch has emitted
\* exactly one notification, the success notification, which gives the number of records
\* created (inserts that succeeded), the number of records updated (updates
\* that succeeded) and, when it is not zero, the number of rows with errors,
\* which is the number of data rows without a name; the error messages of the
\* rows are in no notification.
C15_OneSummary ==
    Succeeded =>
        LET skipped == Cardinality(NamelessIn(Rows))
            counts == << "Created ", Cardinality(Done("insert")), " new accounts, updated ",
                         Cardinality(Done("update")), " existing accounts" >>
        IN  /\ Len(toasts) = 1
            /\ toasts[1].variant # "destructive"
            /\ skipped = Len(errors)
            /\ toasts[1].description =
                  IF skipped = 0 THEN counts
                  ELSE counts \o << ". ", skipped, " rows had errors." >>

\* the k-th smallest element of a set of numbers
Kth(S, k) == CHOOSE x \in S : Cardinality({ y \in S : y <= x }) = k

\* the 1-based numbers, among all lines of the file, of the data lines without a name
NamelessSourceLines ==
    LET src == FileLines(file)
        inked == { s \in DOMAIN src : Stripped(src[s]) # << >> }
    IN  { s \in inked \ {Min(inked)} : NoName(rowObject(headers, parseCSVLine(src[s]))) }

\* C16 as stated: the error message of every rejected row carries the 1-based
\* number of the row's line in the file, blank lines counted.
C16_SourceLineNumbers ==
    JustBuilt =>
        /\ Len(errors) = Cardinality(NamelessSourceLines)
        /\ \A k \in DOMAIN errors :
              errors[k] = << "Row ", Kth(NamelessSourceLines, k), ": Missing company_name" >>

\* the optional scalar fields of an import record
OptionalFields ==
    { k_email, k_region, k_country, k_website, k_company_type, k_notes, k_industry,
      k_phone }

\* the records from which the row with an id has been updated with success
UpdatersOf(id) ==
    { calls[n].rec : n \in { m \in Done("update") : calls[m].target = id } }

\* C17 as stated: each optional scalar field of an import record is the row's
\* value when the row has a non-empty one and null otherwise, never the empty
\* text; and a non-empty stored value is still there after the row has been
\* updated only from records whose row left the field empty.
C17_OptionalFieldsKept ==
    /\ \A k \in DOMAIN records : \A f \in OptionalFields : records[k][f] # << >>
    /\ JustBuilt =>
          LET rows == Rows
              named == NamedIn(rows)
          IN  \A j \in named : \A f \in OptionalFields :
                  RecordOf(named, j)[f]
                      = IF Truthy(Get(rows[j], f)) THEN Get(rows[j], f) ELSE null
    /\ \A i \in DOMAIN store0 : \A f \in OptionalFields :
          (/\ Truthy(store0[i][f])
           /\ \A k \in UpdatersOf(store0[i][k_id]) : records[k][f] = null)
              => store[i][f] = store0[i][f]

\* an audit field of the records is the row's value where the row has one and
\* the acting user's id elsewhere
AuditFieldFromRow(f) ==
    LET rows == Rows
        named == NamedIn(rows)
    IN  \A j \in named :
            RecordOf(named, j)[f] = IF Truthy(Get(rows[j], f)) THEN Get(rows[j], f) ELSE user

\* C18 as stated: in every import record created_by and modified_by are each
\* the value the row supplied for the field, or the acting user's id when the
\* row supplied none.
C18_AuditFields ==
    JustBuilt => AuditFieldFromRow(k_created_by) /\ AuditFieldFromRow(k_modified_by)

\* the successful updates of the row with an id that come after request n
LaterUpdates(id, n) == { m \in Done("update") : m > n /\ calls[m].target = id }

\* the row of the table that the successful insert at position n of calls made
InsertedBy(n) == store[Len(store0) + Cardinality({ m \in Done("insert") : m <= n })]

\* the payload of request n is what the row holds
Holds(row, n) == \A f \in DOMAIN calls[n].payload : row[f] = calls[n].payload[f]

\* C19: no rollback: at every point of an import, whether writes have failed or
\* not, the table is the table of the start with every successful insert and
\* update applied: one more row per successful insert, no row gone, the rows
\* never updated as they were, and every successful write still in its row
\* (unless a later record updated the same row); the only requests are
\* lookups, updates and inserts, at most one write per record.
C19_NoRollback ==
    (pc # "exportQuery" /\ \A n \in DOMAIN calls : calls[n].op # "selectAll") =>
        /\ \A n \in DOMAIN calls : calls[n].op \in {"select", "update", "insert"}
        /\ \A k \in DOMAIN records : Cardinality(WritesOf(k)) <= 1
        /\ Len(store) = Len(store0) + Cardinality(Done("insert"))
        /\ \A i \in DOMAIN store0 :
              /\ store[i][k_id] = store0[i][k_id]
              /\ LaterUpdates(store0[i][k_id], 0) = {} => store[i] = store0[i]
        /\ \A n \in Done("insert") :
              LaterUpdates(InsertedBy(n)[k_id], n) = {} => Holds(InsertedBy(n), n)
        /\ \A n \in Done("update") :
              /\ \E i \in DOMAIN store : store[i][k_id] = calls[n].target
              /\ \A i \in DOMAIN store :
                    (store[i][k_id] = calls[n].target
                     /\ LaterUpdates(calls[n].target, n) = {}) => Holds(store[i], n)

\* an import has ended in which the write of the second record failed after
\* the write of the first had succeeded
C19_Witness ==
    /\ Succeeded
    /\ \E n \in DOMAIN calls : IsWrite(calls[n]) /\ ~calls[n].ok /\ calls[n].rec = 2
    /\ \E n \in Done("insert") \cup Done("update") : calls[n].rec = 1

\* the records for which a matching stored entity was found: those with an
\* update request
FoundRecords == { calls[n].rec : n \in { m \in DOMAIN calls : calls[m].op = "update" } }

\* C20 as stated: after the batch the reported updated count is the number of
\* records for which a matching entity was found, whether their update
\* succeeded or failed.
C20_FoundCountsAsUpdate ==
    Succeeded =>
        /\ updateCount = Cardinality(FoundRecords)
        /\ toasts[1].description[4] = Cardinality(FoundRecords)

\* C20, amended: a record whose matching entity was found counts as an update
\* only when its update succeeded: during the batch and after it the updated
\* tally is the number of successful updates (the created tally the number of
\* successful inserts), and these are the counts the notification reports; a
\* record whose update failed is in neither.
C20_SuccessfulUpdatesCounted ==
    /\ (Reconciling \/ Succeeded) =>
          /\ updateCount = Cardinality(Done("update"))
          /\ successCount = Cardinality(Done("insert"))
    /\ Succeeded =>
          /\ toasts[1].description[4] = Cardinality(Done("update"))
          /\ toasts[1].description[2] = Cardinality(Done("insert"))
          /\ Cardinality(Done("update")) + Cardinality(Done("insert"))
                = Len(records) - Cardinality({ n \in DOMAIN calls :
                                                  IsWrite(calls[n]) /\ ~calls[n].ok })

\* an import has ended in which a found record's update failed
C20_Witness ==
    /\ Succeeded
    /\ \E n \in DOMAIN calls : calls[n].op = "update" /\ ~calls[n].ok
    /\ updateCount < Cardinality(FoundRecords)

----
\* the writes of the running import that came back with an error
FailedWrites == { n \in DOMAIN calls : IsWrite(calls[n]) /\ ~calls[n].ok }

\* the records of the running import whose write succeeded
WrittenRecords == { calls[n].rec : n \in Done("insert") \cup Done("update") }

\* C21: a failed insert or update adds nothing to the created or the updated
\* count (the two counts are the numbers of inserts and of updates that
\* succeeded), its record is not sent again (the failed write is the only write
\* of its record, and no later request belongs to that record), and the import
\* goes on with the next record: the request after the failed write, if any,
\* belongs to the next record, the import is then at the record after the
\* failed one or, when that was the last, has ended with the success
\* notification, and the failed write is never turned into a fatal error (the
\* first notification of the import is the success notification).
C21_FailedWriteSkipped ==
    /\ (Reconciling \/ Succeeded) =>
          /\ successCount = Cardinality(Done("insert"))
          /\ updateCount = Cardinality(Done("update"))
          /\ successCount + updateCount = Cardinality(WrittenRecords)
    /\ \A n \in FailedWrites :
          LET k == calls[n].rec
          IN  /\ WritesOf(k) = {n}
              /\ \A m \in DOMAIN calls : m > n => calls[m].rec > k
              /\ n < Len(calls) => calls[n + 1].rec = k + 1
              /\ toasts = << >> \/ toasts[1].title = "Import Successful"
              /\ IF k < Len(records)
                 THEN Reconciling => ri > k
                 ELSE pc = "idle" /\ Succeeded

\* a record's insert failed, the record after it was written and the import
\* ended with the success notification
C21_Witness ==
    /\ Succeeded
    /\ \E n \in FailedWrites :
          /\ calls[n].op = "insert"
          /\ calls[n].rec + 1 \in WrittenRecords
          /\ successCount + updateCount < Len(records)

----
\* the records of the running import that an insert created, that an update
\* changed
CreatedRecords == { calls[n].rec : n \in Done("insert") }
UpdatedRecords == { calls[n].rec : n \in Done("update") }

\* the records of the running import whose write has been sent
ReconciledRecords == { calls[n].rec : n \in { m \in DOMAIN calls : IsWrite(calls[m]) } }

\* C26: while an import reconciles and when it has ended with the success
\* notification, the created count plus the updated count is at most the
\* number of records reconciled so far (the records before the current one,
\* which are the records whose write has been sent); each record adds at most
\* one to exactly one of the counts (the created count is the number of records
\* created, the updated count the number of records updated, and no record is
\* both); and once the row loop has run, the number of records plus the number
\* of rejected rows is the number of non-blank lines of the file after the
\* header line.
C26_CountInvariants ==
    /\ (Reconciling \/ Succeeded) =>
          /\ ReconciledRecords = 1..(ri - 1)
          /\ successCount + updateCount <= Cardinality(ReconciledRecords)
          /\ successCount = Cardinality(CreatedRecords)
          /\ updateCount = Cardinality(UpdatedRecords)
          /\ CreatedRecords \cap UpdatedRecords = {}
          /\ (CreatedRecords \cup UpdatedRecords) \subseteq ReconciledRecords
          /\ \A k \in ReconciledRecords : Cardinality(WritesOf(k) \cap (Done("insert") \cup Done("update"))) <= 1
    /\ Built => Len(records) + Len(errors) = Len(lines) - 1
    /\ JustBuilt => Len(lines) = Len(NonBlankLines(file))

\* an import of a file with a blank line and a rejected row has created a
\* record and updated another
C26_Witness ==
    /\ Succeeded
    /\ successCount > 0 /\ updateCount > 0
    /\ errors # << >>
    /\ Len(FileLines(file)) > Len(lines)

----
\* C27 as stated: a record is inserted only if no stored entity had its
\* company_name when its lookup by company_name ran, and a lookup that returned
\* an error (several rows match, or the request failed) does not lead to an
\* insert: every insert comes right after its record's lookup by company_name,
\* which was answered and matched no row.
C27_InsertOnlyWhenAbsent ==
    \A n \in DOMAIN calls :
        calls[n].op = "insert" =>
            /\ n > 1
            /\ calls[n - 1].op = "select"
            /\ calls[n - 1].rec = calls[n].rec
            /\ calls[n - 1].key = k_company_name
            /\ calls[n - 1].ok
            /\ calls[n - 1].matches = 0

----
\* the company_name values of the records of the running import
BatchNames == { records[k][k_company_name] : k \in DOMAIN records }

\* the inserts of the running import that created a row with company_name v
InsertsOf(v) == { n \in Done("insert") : calls[n].payload[k_company_name] = v }

\* the requests of the running import are sent record by record: a request of a
\* later record never precedes one of an earlier record, and a record's write
\* is the last of its requests
OneRecordAtATime ==
    /\ \A m, n \in DOMAIN calls : m < n => calls[m].rec <= calls[n].rec
    /\ \A n \in DOMAIN calls :
          (IsWrite(calls[n]) /\ n < Len(calls)) => calls[n + 1].rec = calls[n].rec + 1

\* C22 as stated: the records are reconciled one at a time (each request is
\* answered before the next is sent, and the lookups of a record come after the
\* write of the record before it), so that for a company_name that no stored
\* row had when the import started, the records of one batch produce at most
\* one insert.
C22_OneInsertPerNewKey ==
    (Reconciling \/ Succeeded) =>
        /\ OneRecordAtATime
        /\ \A v \in BatchNames :
              Matching(store0, k_company_name, v) = << >> => Cardinality(InsertsOf(v)) <= 1

----
\* C24: for a value that neither starts nor ends with white space and has no
\* newline, parsing the field handleExport writes for it gives back exactly
\* that value (as the only field) when the value has no double quote, and a
\* different value when it has one: the one field read is then the value
\* without its double quotes, trimmed.
C24_RoundTrip ==
    (ret.fn = "roundTrip" /\ Stripped(arg) = arg /\ ~Includes(arg, NL)) =>
        /\ Len(ret.value) = 1
        /\ ~Includes(arg, DQ) => ret.value = << arg >>
        /\ Includes(arg, DQ) =>
              /\ ret.value # << arg >>
              /\ ret.value[1] = Stripped(WithoutQuotes(arg))

\* a value with a comma and a double quote went through the round trip
C24_Witness ==
    /\ ret.fn = "roundTrip"
    /\ arg = << "a", COMMA, DQ, "B" >>
    /\ ret.value = << << "a", COMMA, "B" >> >>

----
\* the running import has emitted the failure notification
EmittedFailure == \E i \in DOMAIN toasts : toasts[i].title = "Import Failed"

\* C29 as stated: onImportComplete is called exactly once in each import that
\* emitted "Import Successful", after that notification (it has been called
\* once when the import has ended, and not before the notification), and never
\* in an import that emitted "Import Failed"; no import emits both
\* notifications.
C29_CallbackOnSuccessOnly ==
    (\A n \in DOMAIN calls : calls[n].op # "selectAll") =>
        /\ completions = (IF Succeeded /\ pc = "idle" THEN 1 ELSE 0)
        /\ EmittedFailure => completions = 0
        /\ ~(Succeeded /\ EmittedFailure)

----
\* handleImport is running
Importing == pc \notin {"idle", "exportQuery"}

\* every record of the running import has had its write sent
AllProcessed == \A k \in DOMAIN records : WritesOf(k) # {}

\* C25: under SpecFair every invocation of handleImport eventually ends with
\* the busy flag false, and then either it was ended by a fatal error, which is
\* shown in a failure notification, or it has processed every validated record
\* of the input and shown the summary; whatever failed inside it (a request, a
\* check, the caller's callback) left handleImport ended, never stuck.
C25_Terminates ==
    Importing ~>
        /\ pc = "idle" /\ ~isImporting
        /\ toasts # << >>
        /\ \/ Failed /\ toasts[1].variant = "destructive" /\ calls = << >>
           \/ Succeeded /\ AllProcessed /\ ri = Len(records) + 1

\* an import whose last write came back with an error and whose callback threw
\* has ended with the busy flag false and the failure notification
C25_Witness ==
    /\ pc = "idle" /\ ~isImporting
    /\ Succeeded /\ EmittedFailure
    /\ Len(calls) > 0 /\ ~calls[Len(calls)].ok
    /\ AllProcessed

----
\* Properties of two overlapping invocations (specification SpecTwo)

\* the other invocation has started and is still running
PeerRunning == peer.hook \in Hooks /\ peer.raced /\ peer.ctx.pc # "idle"

\* in the request log of one invocation: company_name v was looked up, the
\* lookup was answered with no match, and the insert that followed succeeded
LookedUpThenInserted(log, v) ==
    \E n \in DOMAIN log :
        /\ n > 1
        /\ log[n].op = "insert" /\ log[n].ok
        /\ log[n].payload[k_company_name] = v
        /\ log[n - 1].op = "select" /\ log[n - 1].key = k_company_name
        /\ log[n - 1].ok /\ log[n - 1].matches = 0

\* C23: two imports that run at once in different sessions are not protected
\* against each other: when each has looked a company_name up, found no stored
\* row with it (so both lookups came before either insert), and inserted, the
\* table holds two rows with that company_name; nothing in handleImport makes
\* the second insert fail or turn into an update.
C23_BothSessionsInsert ==
    (peer.hook = "other" /\ peer.raced) =>
        \A v \in BatchNames :
            (LookedUpThenInserted(calls, v) /\ LookedUpThenInserted(peer.ctx.calls, v)) =>
                Len(Matching(store, k_company_name, v)) >= 2

\* two sessions imported a file with the same new company_name into an empty
\* table, both looked it up before either inserted, both inserted and both
\* ended with the success notification: two rows have that company_name
C23_Witness ==
    /\ peer.hook = "other" /\ peer.raced
    /\ pc = "idle" /\ peer.ctx.pc = "idle"
    /\ Succeeded
    /\ \E i \in DOMAIN peer.ctx.toasts : peer.ctx.toasts[i].title = "Import Successful"
    /\ \E v \in BatchNames :
          /\ Matching(store0, k_company_name, v) = << >>
          /\ Matching(peer.ctx.store0, k_company_name, v) = << >>
          /\ LookedUpThenInserted(calls, v)
          /\ LookedUpThenInserted(peer.ctx.calls, v)
          /\ Len(Matching(store, k_company_name, v)) = 2

\* the other invocation is between its first lookup and its last write
PeerReconciling ==
    /\ PeerRunning
    /\ peer.ctx.pc \in {"selectById", "updateById", "selectByName", "updateByName", "insert"}

\* C28 as stated: when handleImport is invoked a second time on the same hook
\* while an earlier import is still running, isImporting stays true until both
\* have finished: it is never false while one of them still has persistence
\* requests to send.
C28_BusyUntilAllFinished ==
    peer.hook = "same" => ((Reconciling \/ PeerReconciling) => isImporting)

----
\* Properties of DashboardCustomizeModal (specification SpecModal)

WidgetKeys == { DEFAULT_WIDGETS[i].key : i \in DOMAIN DEFAULT_WIDGETS }

KeysOf(list) == [i \in DOMAIN list |-> list[i].key]

\* the list has each of the 10 default keys exactly once
EachKeyOnce(list) ==
    /\ Len(list) = 10
    /\ \A key \in WidgetKeys : Cardinality({ i \in DOMAIN list : list[i].key = key }) = 1

\* the widget with a key in a list that has it once
WidgetOf(list, key) == list[CHOOSE i \in DOMAIN list : list[i].key = key]

\* what one run of a handler, recorded in lastOp', has done to the widgets
HandlerEffect ==
    LET op == lastOp' IN
    /\ op.op \in {"toggleWidget", "changeSize"} =>
          /\ KeysOf(widgets') = KeysOf(widgets)
          /\ \A i \in DOMAIN widgets :
                IF widgets[i].key # op.key THEN widgets'[i] = widgets[i]
                ELSE IF op.op = "toggleWidget"
                THEN /\ widgets'[i].visible = ~widgets[i].visible
                     /\ widgets'[i].size = widgets[i].size
                ELSE /\ widgets'[i].visible = widgets[i].visible
                     /\ widgets'[i].size = op.size
    /\ op.op = "handleDragEnd" =>
          /\ \A key \in WidgetKeys : WidgetOf(widgets', key) = WidgetOf(widgets, key)
          /\ IF op.result.destination = NoDestination THEN widgets' = widgets
             ELSE widgets'[op.result.destination.index + 1]
                      = widgets[op.result.source.index + 1]
    /\ op.op = "handleReset" =>
          /\ KeysOf(widgets') = KeysOf(DEFAULT_WIDGETS)
          /\ \A i \in DOMAIN widgets' : widgets'[i].visible
    /\ op.op = "handleSave" =>
          /\ widgets' = widgets
          /\ Len(op.order) = 10
          /\ { op.order[i] : i \in DOMAIN op.order } = WidgetKeys
          /\ { op.visible[i] : i \in DOMAIN op.visible } \subseteq WidgetKeys
          /\ { op.visible[i] : i \in DOMAIN op.visible }
                = { widgets[i].key : i \in { j \in DOMAIN widgets : widgets[j].visible } }
          /\ DOMAIN op.sizes = WidgetKeys

\* C30: once the effect has initialized the list from a saved order that has
\* no key twice, and after any run of toggleWidget, changeSize, handleDragEnd
\* (with indices in range) and handleReset, the widget list has each of the 10
\* default keys exactly once; toggleWidget and changeSize leave the order and
\* every other widget as they were; handleDragEnd leaves the visibility and the
\* size of every widget as they were; handleSave reports an order that is a
\* permutation of the 10 keys and visible keys that are among them.
C30_WidgetList ==
    /\ [](lastOp # NoOp => EachKeyOnce(widgets))
    /\ [][lastOp' # lastOp => HandlerEffect]_vars

\* a layout with a key that is no widget was loaded, its first widget was
\* dragged to the end, another handler was run, and the list was saved
C30_Witness ==
    /\ lastOp.op = "handleSave"
    /\ lastOp.n >= 2
    /\ lastOp.order[1] = "leads"
    /\ lastOp.order[10] = "deals"
    /\ lastOp.visible = << "deals" >>

====
